---- MODULE Spec2Model ----
(***************************************************************************)
(* Model of the RAG document analyzer backend: the ingest pipeline and the  *)
(* vector-store adapter (rag_engine.py, chroma_db.py), the answer pipeline  *)
(* with its conversation history (rag_engine.py, groq_client.py), the       *)
(* prompt-template and request-log store (observability_service.py) and the *)
(* text cleaner and chunker (pdf_processor.py).                             *)
(*                                                                         *)
(* External collaborators (vector store, embedding model, PDF extractor,    *)
(* LLM API) are inputs of the actions: each call either succeeds or raises. *)
(* The relational log store is taken to accept every write.                 *)
(***************************************************************************)
EXTENDS Integers, Sequences, FiniteSets, TLC

VARIABLES
    collection,        \* ChromaDBHandler.collection: chunk metadata rows in insertion order
    next_uuid,         \* number of document ids generated so far (uuid4 is fresh each time)
    conversations,     \* RAGEngine.conversations: conversation id -> list of messages
    next_conv,         \* number of conversation ids generated so far
    llm_request_logs,  \* table llm_request_logs, in insertion order
    prompt_templates,  \* table prompt_templates, in insertion order
    pdf_processor,     \* PDFProcessor fields chunk_size, chunk_overlap
    result,            \* what the last call returned (or that it raised)
    trace,             \* the external effects of the last call, in program order
    calls,             \* calls in flight on concurrent threads: position and locals
    rate_limiter,      \* RateLimiter fields requests_per_minute, requests
    clock              \* time.time() in seconds

vars == <<collection, next_uuid, conversations, next_conv, llm_request_logs,
          prompt_templates, pdf_processor, result, trace, calls, rate_limiter,
          clock>>

RequestsPerMinute == 2   \* environment setting RATE_LIMIT_PER_MINUTE (default 60)

(* no call in flight *)
NoCalls == [thread \in {} |-> [pc |-> "done"]]

(* RateLimiter.__init__: the limit and an empty defaultdict(list) *)
RateLimiter(requests_per_minute) ==
    [requests_per_minute |-> requests_per_minute,
     requests |-> [client_ip \in {} |-> <<>>]]

----------------------------------------------------------------------------
(* Bounds of the model *)

MaxDocs == 2          \* document ids generated in one behaviour
ChunkCounts == {0, 1, 2}   \* number of chunks an upload is split into

Filenames == {"a.pdf", "b.pdf"}
Hashes == {"h1", "h2"}
DocIds == 1..MaxDocs

(* Python's None for a document id / a missing dictionary key *)
NoDocId == 0
Absent == -1

Min(a, b) == IF a < b THEN a ELSE b
Max(a, b) == IF a > b THEN a ELSE b

----------------------------------------------------------------------------
(* Vector store adapter: chroma_db.py *)

(* collection.get(where={"document_id": d}): the rows of one document *)
GetByDocumentId(coll, document_id) ==
    SelectSeq(coll, LAMBDA m : m.document_id = document_id)

RECURSIVE GetAllDocumentsLoop(_, _, _)
GetAllDocumentsLoop(coll, i, documents) ==
    IF i > Len(coll) THEN documents
    ELSE LET metadata == coll[i] IN
         IF metadata.document_id # NoDocId
            /\ ~ \E k \in 1..Len(documents) :
                     documents[k].document_id = metadata.document_id
         THEN GetAllDocumentsLoop(coll, i + 1,
                  Append(documents, [document_id |-> metadata.document_id,
                                     filename |-> metadata.filename]))
         ELSE GetAllDocumentsLoop(coll, i + 1, documents)

(* one entry per distinct document_id, in order of first appearance *)
GetAllDocuments(coll) == GetAllDocumentsLoop(coll, 1, <<>>)

(* rows appended by collection.add for one document *)
NewRows(document_id, filename, content_hash, n) ==
    [i \in 1..n |-> [document_id |-> document_id, filename |-> filename,
                     chunk_id |-> i - 1, content_hash |-> content_hash]]

(* add_documents: the batch is appended; when the store raises, the rows  *)
(* written before the error (a proper prefix of the batch) stay           *)
AddDocuments(coll, rows, addFail, written) ==
    IF addFail THEN coll \o SubSeq(rows, 1, Min(written, Len(rows) - 1))
    ELSE coll \o rows

(* a delete that removes only the first chunk id of the document *)
ChromaDeleteDocument_FirstOnly(coll, document_id) ==
    LET first == CHOOSE i \in 1..Len(coll) :
                     /\ coll[i].document_id = document_id
                     /\ \A j \in 1..(i - 1) : coll[j].document_id # document_id
    IN SubSeq(coll, 1, first - 1) \o SubSeq(coll, first + 1, Len(coll))

(* ChromaDBHandler.delete_document: remove the rows of the document *)
ChromaDeleteDocument(coll, document_id) ==
    SelectSeq(coll, LAMBDA m : m.document_id # document_id)

----------------------------------------------------------------------------
(* RAG engine, ingest side: rag_engine.py *)

(* list_documents: any store error is swallowed and an empty list returned *)
ListDocuments(coll, listFail) ==
    IF listFail THEN <<>>
    ELSE LET documents == GetAllDocuments(coll) IN
         [i \in 1..Len(documents) |->
             [document_id |-> documents[i].document_id,
              filename |-> documents[i].filename,
              chunk_count |-> Len(GetByDocumentId(coll, documents[i].document_id)),
              status |-> "completed"]]

NoMatch == [document_id |-> NoDocId, filename |-> "", match_type |-> "none"]
Raised == [document_id |-> NoDocId, filename |-> "", match_type |-> "raised"]

RECURSIVE CheckDuplicateLoop(_, _, _, _, _, _)
CheckDuplicateLoop(coll, documents, i, content_hash, filename, scanFailAt) ==
    IF i > Len(documents) THEN NoMatch
    ELSE LET doc == documents[i] IN
         IF filename # "" /\ doc.filename = filename
         THEN [document_id |-> doc.document_id, filename |-> doc.filename,
               match_type |-> "filename"]
         ELSE IF scanFailAt = i
         THEN Raised   \* get_by_document_id raised inside the loop
         ELSE LET doc_chunks == GetByDocumentId(coll, doc.document_id) IN
              IF \E k \in 1..Len(doc_chunks) : doc_chunks[k].content_hash = content_hash
              THEN [document_id |-> doc.document_id, filename |-> doc.filename,
                    match_type |-> "content_hash"]
              ELSE CheckDuplicateLoop(coll, documents, i + 1, content_hash,
                                      filename, scanFailAt)

(* body of the try block of _check_duplicate *)
CheckDuplicateTry(coll, content_hash, filename, listFail, scanFailAt) ==
    CheckDuplicateLoop(coll, ListDocuments(coll, listFail), 1,
                       content_hash, filename, scanFailAt)

(* a duplicate check that tests the content hash before the filename *)
RECURSIVE CheckDuplicateLoop_HashFirst(_, _, _, _, _, _)
CheckDuplicateLoop_HashFirst(coll, documents, i, content_hash, filename, scanFailAt) ==
    IF i > Len(documents) THEN NoMatch
    ELSE LET doc == documents[i] IN
         IF scanFailAt = i THEN Raised
         ELSE LET doc_chunks == GetByDocumentId(coll, doc.document_id) IN
              IF \E k \in 1..Len(doc_chunks) : doc_chunks[k].content_hash = content_hash
              THEN [document_id |-> doc.document_id, filename |-> doc.filename,
                    match_type |-> "content_hash"]
              ELSE IF filename # "" /\ doc.filename = filename
              THEN [document_id |-> doc.document_id, filename |-> doc.filename,
                    match_type |-> "filename"]
              ELSE CheckDuplicateLoop_HashFirst(coll, documents, i + 1, content_hash,
                                                filename, scanFailAt)

CheckDuplicate_HashFirst(coll, content_hash, filename, listFail, scanFailAt) ==
    LET r == CheckDuplicateLoop_HashFirst(coll, ListDocuments(coll, listFail), 1,
                                          content_hash, filename, scanFailAt)
    IN IF r = Raised THEN NoMatch ELSE r

(* _check_duplicate: the first listed document matching by filename or by *)
(* hash; the except branch turns an error of the scan into None           *)
CheckDuplicate(coll, content_hash, filename, listFail, scanFailAt) ==
    LET r == CheckDuplicateTry(coll, content_hash, filename, listFail, scanFailAt)
    IN IF r = Raised THEN NoMatch ELSE r

(* what the duplicate check writes to the error log *)
CheckDuplicateEvents(coll, content_hash, filename, listFail, scanFailAt) ==
    (IF listFail THEN <<"list_documents_error">> ELSE <<>>)
    \o (IF CheckDuplicateTry(coll, content_hash, filename, listFail, scanFailAt) = Raised
        THEN <<"check_duplicate_error">> ELSE <<>>)

(* the step of process_document at which a collaborator raises *)
IngestFaults == {"none", "hash", "extract", "embed", "add"}

(* an except branch that lets the error escape to the caller *)
FailedResult_Reraise(filename, content_hash, msg) ==
    [op |-> "process_document", filename |-> filename,
     content_hash |-> content_hash, status |-> "failed",
     document_id |-> NoDocId, error |-> msg, existing_doc |-> NoMatch,
     raised |-> TRUE]

(* except branch of process_document: the error becomes a 'failed' result *)
FailedResult(filename, content_hash, msg) ==
    [op |-> "process_document", filename |-> filename,
     content_hash |-> content_hash, status |-> "failed",
     document_id |-> NoDocId, error |-> msg, existing_doc |-> NoMatch,
     raised |-> FALSE]

DuplicateResult(filename, content_hash, existing_doc) ==
    [op |-> "process_document", filename |-> filename,
     content_hash |-> content_hash, status |-> "duplicate",
     document_id |-> NoDocId, error |-> "duplicate",
     existing_doc |-> existing_doc, raised |-> FALSE]

CompletedResult(filename, content_hash, document_id) ==
    [op |-> "process_document", filename |-> filename,
     content_hash |-> content_hash, status |-> "completed",
     document_id |-> document_id, error |-> "", existing_doc |-> NoMatch,
     raised |-> FALSE]

ProcessDocument(filename, content_hash, nChunks, fault, listFail, scanFailAt, written) ==
    /\ LET existing_doc ==
               CheckDuplicate(collection, content_hash, filename, listFail, scanFailAt)
           scanned == <<"hash">> \o CheckDuplicateEvents(collection, content_hash,
                                        filename, listFail, scanFailAt)
           document_id == next_uuid + 1
           rows == NewRows(document_id, filename, content_hash, nChunks)
       IN
       IF fault = "hash"
       THEN /\ result' = FailedResult(filename, content_hash, "hash")
            /\ trace' = <<"hash_error">>
            /\ UNCHANGED <<collection, next_uuid>>
       ELSE IF existing_doc # NoMatch
       THEN /\ result' = DuplicateResult(filename, content_hash, existing_doc)
            /\ trace' = scanned \o <<"duplicate">>
            /\ UNCHANGED <<collection, next_uuid>>
       ELSE /\ next_uuid < MaxDocs
            /\ next_uuid' = document_id
            /\ IF fault = "extract"
               THEN /\ result' = FailedResult(filename, content_hash, "extract")
                    /\ trace' = scanned \o <<"extract_error">>
                    /\ UNCHANGED collection
               ELSE IF fault = "embed"
               THEN /\ result' = FailedResult(filename, content_hash, "embed")
                    /\ trace' = scanned \o <<"extract", "embed_error">>
                    /\ UNCHANGED collection
               ELSE /\ collection' = AddDocuments(collection, rows, fault = "add", written)
                    /\ IF fault = "add"
                       THEN /\ result' = FailedResult(filename, content_hash, "add")
                            /\ trace' = scanned \o <<"extract", "embed", "add_error">>
                       ELSE /\ result' = CompletedResult(filename, content_hash,
                                                         document_id)
                            /\ trace' = scanned \o <<"extract", "embed", "add">>
    /\ UNCHANGED <<conversations, next_conv, llm_request_logs, prompt_templates,
                   pdf_processor,
                   calls, rate_limiter, clock>>

(* RAGEngine.delete_document; getFail / deleteFail: the store raises *)
DeleteDocument(document_id, getFail, deleteFail) ==
    /\ LET chunk_ids == GetByDocumentId(collection, document_id)
           chunks_deleted == Len(chunk_ids)
       IN
       IF getFail \/ (chunks_deleted > 0 /\ deleteFail)
       THEN /\ result' = [op |-> "delete_document", document_id |-> document_id,
                          success |-> FALSE, chunks_deleted |-> Absent,
                          error |-> "store", raised |-> FALSE]
            /\ UNCHANGED collection
       ELSE IF chunks_deleted = 0
       THEN /\ result' = [op |-> "delete_document", document_id |-> document_id,
                          success |-> FALSE, chunks_deleted |-> 0,
                          error |-> "not found", raised |-> FALSE]
            /\ UNCHANGED collection
       ELSE /\ result' = [op |-> "delete_document", document_id |-> document_id,
                          success |-> TRUE, chunks_deleted |-> chunks_deleted,
                          error |-> "", raised |-> FALSE]
            /\ collection' = ChromaDeleteDocument(collection, document_id)
    /\ trace' = <<"delete">>
    /\ UNCHANGED <<next_uuid, conversations, next_conv, llm_request_logs,
                   prompt_templates, pdf_processor,
                   calls, rate_limiter, clock>>

----------------------------------------------------------------------------
(* Text cleaner and chunker: pdf_processor.py.  A text is a sequence of    *)
(* characters; "NUL" stands for the character \x00.                        *)

MaxTextLen == 5       \* characters of an input text
MaxChunkSize == 3     \* largest configured chunk_size

Chars == {"a", " ", "\n", ".", "NUL"}
Whitespace == {" ", "\n"}
Boundaries == {" ", "\n", ".", "!", "?"}

(* a collapse that halves each pair of spaces once, like replace('  ', ' ') *)
RECURSIVE CollapseSpaces_Pairs(_)
CollapseSpaces_Pairs(text) ==
    IF Len(text) <= 1 THEN text
    ELSE IF text[1] = " " /\ text[2] = " "
         THEN <<" ">> \o CollapseSpaces_Pairs(SubSeq(text, 3, Len(text)))
         ELSE <<text[1]>> \o CollapseSpaces_Pairs(SubSeq(text, 2, Len(text)))

(* re.sub(r' +', ' ', text): a space that follows a space is dropped *)
RECURSIVE CollapseSpaces(_)
CollapseSpaces(text) ==
    IF Len(text) <= 1 THEN text
    ELSE LET n == Len(text)
             front == CollapseSpaces(SubSeq(text, 1, n - 1))
         IN IF text[n] = " " /\ text[n - 1] = " " THEN front
            ELSE Append(front, text[n])

(* re.sub(r'\n{3,}', '\n\n', text): the third and later newlines of a run are dropped *)
RECURSIVE CollapseNewlines(_)
CollapseNewlines(text) ==
    IF Len(text) <= 2 THEN text
    ELSE LET n == Len(text)
             front == CollapseNewlines(SubSeq(text, 1, n - 1))
         IN IF text[n] = "\n" /\ text[n - 1] = "\n" /\ text[n - 2] = "\n" THEN front
            ELSE Append(front, text[n])

(* text.replace('\x00', '') *)
RemoveNul(text) == SelectSeq(text, LAMBDA c : c # "NUL")

(* str.strip(): leading and trailing whitespace removed *)
RECURSIVE Strip(_)
Strip(text) ==
    IF text = <<>> THEN text
    ELSE IF text[1] \in Whitespace THEN Strip(SubSeq(text, 2, Len(text)))
    ELSE IF text[Len(text)] \in Whitespace THEN Strip(SubSeq(text, 1, Len(text) - 1))
    ELSE text

(* clean_text: the four steps in the order of the code *)
CleanText(text) == Strip(RemoveNul(CollapseNewlines(CollapseSpaces(text))))

(* "while end < len(text) and text[end] not in [...]: end += 1" *)
RECURSIVE ExtendEnd(_, _)
ExtendEnd(text, end) ==
    IF end < Len(text) /\ text[end + 1] \notin Boundaries
    THEN ExtendEnd(text, end + 1)
    ELSE end

(* text[start:end] of Python, offsets counted from 0 *)
Slice(text, start, end) == SubSeq(text, start + 1, Min(end, Len(text)))

(* a step that starts the next window one character too far *)
NextStart_SkipsOne(end, chunk_overlap) == end - chunk_overlap + 1

(* a step that moves the next window back by one character more *)
NextStart_OneBack(end, chunk_overlap) == end - chunk_overlap - 1

(* a step that starts the next window where the last one ended *)
NextStart_NoOverlap(end, chunk_overlap) == end

(* "start = end - self.chunk_overlap" *)
NextStart(end, chunk_overlap) == end - chunk_overlap

(* the while loop of chunk_text; chunk_id is the number of chunks appended *)
(* so far, and the page_number lookup, which changes no other field, is    *)
(* left out of the chunk record                                            *)
RECURSIVE ChunkLoop(_, _, _, _, _)
ChunkLoop(text, chunk_size, chunk_overlap, start, chunks) ==
    IF ~ (start < Len(text)) THEN chunks
    ELSE LET end == ExtendEnd(text, start + chunk_size)
             chunk_text == Strip(Slice(text, start, end))
             appended == IF chunk_text # <<>>
                         THEN Append(chunks, [id |-> Len(chunks), text |-> chunk_text,
                                              start_char |-> start, end_char |-> end,
                                              chunk_length |-> Len(chunk_text)])
                         ELSE chunks
             next == NextStart(end, chunk_overlap)
         IN IF next <= 0 /\ end >= Len(text) THEN appended
            ELSE ChunkLoop(text, chunk_size, chunk_overlap, next, appended)

(* a chunk_text that cuts the text as given, without cleaning it first *)
ChunkText_NoClean(text, chunk_size, chunk_overlap) ==
    ChunkLoop(text, chunk_size, chunk_overlap, 0, <<>>)

(* chunk_text: clean the text, then cut it into overlapping windows *)
ChunkText(text, chunk_size, chunk_overlap) ==
    ChunkLoop(CleanText(text), chunk_size, chunk_overlap, 0, <<>>)

ChunkTextCall ==
    /\ result.op = "text"
    /\ result' = [op |-> "chunk_text", text |-> result.text,
                  cleaned |-> CleanText(result.text),
                  chunks |-> ChunkText(result.text, pdf_processor.chunk_size,
                                       pdf_processor.chunk_overlap)]
    /\ trace' = <<"chunk_text">>
    /\ UNCHANGED <<collection, next_uuid, conversations, next_conv,
                   llm_request_logs, prompt_templates, pdf_processor,
                   calls, rate_limiter, clock>>

(* chunk_text one loop iteration at a time: result holds the locals of the *)
(* call (text after cleaning, start, chunks) and pc, the position in the   *)
(* code: "loop" at the while test, "done" after the return                 *)
ChunkTextStep ==
    /\ result.op = "chunk_loop"
    /\ result.pc = "loop"
    /\ LET text == result.text
           start == result.start
           end == ExtendEnd(text, start + pdf_processor.chunk_size)
           chunk_text == Strip(Slice(text, start, end))
           appended == IF chunk_text # <<>>
                       THEN Append(result.chunks,
                                [id |-> Len(result.chunks), text |-> chunk_text,
                                 start_char |-> start, end_char |-> end,
                                 chunk_length |-> Len(chunk_text)])
                       ELSE result.chunks
           next == NextStart(end, pdf_processor.chunk_overlap)
       IN IF ~ (start < Len(text))
          THEN result' = [result EXCEPT !.pc = "done"]
          ELSE result' = [result EXCEPT
                              !.chunks = appended,
                              !.start = next,
                              !.iterations = @ + 1,
                              !.pc = IF next <= 0 /\ end >= Len(text)
                                     THEN "done" ELSE "loop"]
    /\ trace' = <<"chunk_text">>
    /\ UNCHANGED <<collection, next_uuid, conversations, next_conv,
                   llm_request_logs, prompt_templates, pdf_processor,
                   calls, rate_limiter, clock>>

(* clean_text on a text and on the same text with the whitespace run at  *)
(* position stretched made one character longer (0: the text itself)       *)
Stretch(text, stretched) ==
    IF stretched = 0 THEN text
    ELSE SubSeq(text, 1, stretched) \o SubSeq(text, stretched, Len(text))

CleanTextCall(stretched) ==
    /\ result.op = "text"
    /\ IF stretched = 0 THEN TRUE ELSE result.text[stretched] \in Whitespace
    /\ result' = [op |-> "clean_text", text |-> result.text,
                  cleaned |-> CleanText(result.text),
                  stretched |-> stretched,
                  variant |-> Stretch(result.text, stretched),
                  cleaned_variant |-> CleanText(Stretch(result.text, stretched))]
    /\ trace' = <<"clean_text">>
    /\ UNCHANGED <<collection, next_uuid, conversations, next_conv,
                   llm_request_logs, prompt_templates, pdf_processor,
                   calls, rate_limiter, clock>>

(* chunk_text(clean_text(T)) and chunk_text(clean_text(clean_text(T))) *)
ChunkCleanedCall ==
    /\ result.op = "text"
    /\ LET once == CleanText(result.text)
           twice == CleanText(once)
       IN result' = [op |-> "chunk_cleaned", text |-> result.text,
                     once |-> once, twice |-> twice,
                     chunks_once |-> ChunkText(once, pdf_processor.chunk_size,
                                               pdf_processor.chunk_overlap),
                     chunks_twice |-> ChunkText(twice, pdf_processor.chunk_size,
                                                pdf_processor.chunk_overlap)]
    /\ trace' = <<"clean_text", "chunk_text", "clean_text", "clean_text", "chunk_text">>
    /\ UNCHANGED <<collection, next_uuid, conversations, next_conv,
                   llm_request_logs, prompt_templates, pdf_processor,
                   calls, rate_limiter, clock>>

----------------------------------------------------------------------------
(* Observability store: observability_service.py *)

MaxTemplates == 4     \* rows of prompt_templates in one behaviour

RAG_PROMPT_TEMPLATE_KEY == "rag_qa_system_prompt"
TemplateKeys == {RAG_PROMPT_TEMPLATE_KEY, "k"}
TemplateTexts == {"default", "custom"}

NoTemplate == [id |-> 0, template_key |-> "", version |-> 0,
               template_text |-> "", is_active |-> FALSE]

RowsOfKey(templates, template_key) ==
    {i \in 1..Len(templates) : templates[i].template_key = template_key}

(* .order_by(desc(version)).first() over the rows at the given indices *)
HighestVersion(templates, rows) ==
    IF rows = {} THEN NoTemplate
    ELSE templates[CHOOSE i \in rows :
                       \A j \in rows :
                           \/ templates[j].version < templates[i].version
                           \/ (templates[j].version = templates[i].version /\ i <= j)]

(* ensure_prompt_template: the highest version of the key, or a new active v1 *)
EnsurePromptTemplate(templates, template_key, template_text) ==
    LET existing == HighestVersion(templates, RowsOfKey(templates, template_key))
        prompt == [id |-> Len(templates) + 1, template_key |-> template_key,
                   version |-> 1, template_text |-> template_text,
                   is_active |-> TRUE]
    IN IF existing # NoTemplate
       THEN [templates |-> templates, row |-> existing]
       ELSE [templates |-> Append(templates, prompt), row |-> prompt]

(* get_active_prompt_template: the highest active version of the key, or None *)
GetActivePromptTemplate(templates, template_key) ==
    HighestVersion(templates,
        {i \in RowsOfKey(templates, template_key) : templates[i].is_active})

(* a version counter that looks at the rows of every key *)
LatestVersion_AnyKey(templates, template_key) ==
    IF Len(templates) = 0 THEN 0
    ELSE CHOOSE v \in {templates[i].version : i \in 1..Len(templates)} :
             \A i \in 1..Len(templates) : templates[i].version <= v

(* func.max(version) over the rows of the key, 0 when there is none *)
LatestVersion(templates, template_key) ==
    LET rows == RowsOfKey(templates, template_key)
    IN IF rows = {} THEN 0
       ELSE CHOOSE v \in {templates[i].version : i \in rows} :
                \A i \in rows : templates[i].version <= v

(* a create_prompt_version that forgets to deactivate the active rows *)
CreatePromptVersion_NoDeactivate(templates, template_key, template_text, activate) ==
    LET prompt == [id |-> Len(templates) + 1, template_key |-> template_key,
                   version |-> LatestVersion(templates, template_key) + 1,
                   template_text |-> template_text, is_active |-> activate]
    IN [templates |-> Append(templates, prompt), row |-> prompt]

(* create_prompt_version: deactivate the active rows of the key when       *)
(* activate is set, then insert version max+1; one transaction             *)
CreatePromptVersion(templates, template_key, template_text, activate) ==
    LET latest_version == LatestVersion(templates, template_key)
        updated == [i \in 1..Len(templates) |->
                        IF activate /\ templates[i].template_key = template_key
                           /\ templates[i].is_active
                        THEN [templates[i] EXCEPT !.is_active = FALSE]
                        ELSE templates[i]]
        prompt == [id |-> Len(templates) + 1, template_key |-> template_key,
                   version |-> latest_version + 1,
                   template_text |-> template_text, is_active |-> activate]
    IN [templates |-> Append(updated, prompt), row |-> prompt]

EnsurePromptTemplateCall(template_key, template_text) ==
    /\ Len(prompt_templates) < MaxTemplates
    /\ LET r == EnsurePromptTemplate(prompt_templates, template_key, template_text)
       IN /\ prompt_templates' = r.templates
          /\ result' = [op |-> "ensure_prompt_template", template_key |-> template_key,
                        activate |-> TRUE, row |-> r.row, raised |-> FALSE]
    /\ trace' = <<"ensure_prompt_template">>
    /\ UNCHANGED <<collection, next_uuid, conversations, next_conv,
                   llm_request_logs, pdf_processor,
                   calls, rate_limiter, clock>>

CreatePromptVersionCall(template_key, template_text, activate) ==
    /\ Len(prompt_templates) < MaxTemplates
    /\ LET r == CreatePromptVersion(prompt_templates, template_key, template_text,
                                    activate)
       IN /\ prompt_templates' = r.templates
          /\ result' = [op |-> "create_prompt_version", template_key |-> template_key,
                        activate |-> activate, row |-> r.row, raised |-> FALSE]
    /\ trace' = <<"create_prompt_version">>
    /\ UNCHANGED <<collection, next_uuid, conversations, next_conv,
                   llm_request_logs, pdf_processor,
                   calls, rate_limiter, clock>>

(* create_prompt_version on concurrent threads, one database statement per *)
(* step.  Every call has its own session: it reads the highest version,    *)
(* then (activate only) issues the UPDATE that deactivates the rows that   *)
(* are active at that moment, then inserts its row and commits.  Other     *)
(* threads' commits may fall between these statements.                     *)
Threads == {1, 2}

(* an insert that leaves the rows named by the UPDATE active *)
InsertVersion_KeepsActive(templates, template_key, template_text, activate, latest_version, targets) ==
    Append(templates, [id |-> Len(templates) + 1, template_key |-> template_key,
                       version |-> latest_version + 1,
                       template_text |-> template_text, is_active |-> activate])

(* db.add(prompt); db.commit(): the rows named by the UPDATE are inactive, *)
(* the new row carries the version computed from the earlier read          *)
InsertVersion(templates, template_key, template_text, activate, latest_version, targets) ==
    LET updated == [i \in 1..Len(templates) |->
                        IF templates[i].id \in targets
                        THEN [templates[i] EXCEPT !.is_active = FALSE]
                        ELSE templates[i]]
    IN Append(updated, [id |-> Len(templates) + 1, template_key |-> template_key,
                        version |-> latest_version + 1,
                        template_text |-> template_text, is_active |-> activate])

BeginCreatePromptVersion(thread, template_key, template_text, activate) ==
    /\ thread \notin DOMAIN calls
    /\ Len(prompt_templates) + Cardinality(DOMAIN calls) < MaxTemplates
    /\ calls' = [t \in DOMAIN calls \cup {thread} |->
                    IF t = thread
                    THEN [pc |-> "read", template_key |-> template_key,
                          template_text |-> template_text, activate |-> activate,
                          latest_version |-> 0, targets |-> {},
                          overlapped |-> FALSE]
                    ELSE calls[t]]
    /\ UNCHANGED <<collection, next_uuid, conversations, next_conv,
                   llm_request_logs, prompt_templates, pdf_processor, result,
                   trace, rate_limiter, clock>>

(* latest_version = db.query(func.max(version)).filter(key).scalar() or 0 *)
ReadLatestVersion(thread) ==
    /\ thread \in DOMAIN calls
    /\ calls[thread].pc = "read"
    /\ calls' = [calls EXCEPT
                    ![thread].latest_version =
                        LatestVersion(prompt_templates, calls[thread].template_key),
                    ![thread].pc = IF calls[thread].activate THEN "update"
                                   ELSE "insert"]
    /\ UNCHANGED <<collection, next_uuid, conversations, next_conv,
                   llm_request_logs, prompt_templates, pdf_processor, result,
                   trace, rate_limiter, clock>>

(* if activate: the UPDATE ... SET is_active = False over the active rows *)
DeactivateActiveRows(thread) ==
    /\ thread \in DOMAIN calls
    /\ calls[thread].pc = "update"
    /\ calls' = [calls EXCEPT
                    ![thread].targets =
                        {prompt_templates[i].id :
                             i \in {j \in RowsOfKey(prompt_templates,
                                                    calls[thread].template_key) :
                                        prompt_templates[j].is_active}},
                    ![thread].pc = "insert"]
    /\ UNCHANGED <<collection, next_uuid, conversations, next_conv,
                   llm_request_logs, prompt_templates, pdf_processor, result,
                   trace, rate_limiter, clock>>

(* the insert and the commit; a call that was between its read and its    *)
(* commit while this one committed is marked as overlapped                *)
InsertAndCommit(thread) ==
    /\ thread \in DOMAIN calls
    /\ calls[thread].pc = "insert"
    /\ LET call == calls[thread]
           committed == InsertVersion(prompt_templates, call.template_key,
                            call.template_text, call.activate,
                            call.latest_version, call.targets)
       IN /\ prompt_templates' = committed
          /\ result' = [op |-> "create_prompt_version",
                        template_key |-> call.template_key,
                        activate |-> call.activate,
                        row |-> committed[Len(committed)], raised |-> FALSE,
                        thread |-> thread, overlapped |-> call.overlapped]
    /\ calls' = [t \in DOMAIN calls \ {thread} |->
                    IF calls[t].pc \in {"update", "insert"}
                    THEN [calls[t] EXCEPT !.overlapped = TRUE]
                    ELSE calls[t]]
    /\ trace' = <<"create_prompt_version">>
    /\ UNCHANGED <<collection, next_uuid, conversations, next_conv,
                   llm_request_logs, pdf_processor, rate_limiter, clock>>

(* log_llm_request: one row appended to llm_request_logs *)
LogLLMRequest(logs, conversation_id, question, prompt_template_key, prompt_template_version, response_text, prompt_tokens, completion_tokens, success) ==
    Append(logs, [id |-> Len(logs) + 1, request_type |-> "rag_answer",
                  conversation_id |-> conversation_id, question |-> question,
                  prompt_template_key |-> prompt_template_key,
                  prompt_template_version |-> prompt_template_version,
                  response_text |-> response_text,
                  prompt_tokens |-> prompt_tokens,
                  completion_tokens |-> completion_tokens,
                  total_tokens |-> prompt_tokens + completion_tokens,
                  success |-> success])

(* Column created_at, default=datetime.utcnow: the row just inserted is   *)
(* stamped with the time of the insert (in hours)                          *)
StampCreatedAt(logs, now) ==
    [i \in 1..Len(logs) |->
        IF i = Len(logs)
        THEN [created_at |-> now] @@ logs[i]
        ELSE logs[i]]

(* func.sum of a column over a list of rows, 0 for no rows (coalesce) *)
RECURSIVE SumColumn(_, _)
SumColumn(rows, column) ==
    IF rows = <<>> THEN 0
    ELSE rows[1][column] + SumColumn(Tail(rows), column)

(* a summary that aggregates every row, whatever its age *)
GetMetricsSummary_AllRows(logs, window_hours, now) ==
    [total_queries |-> Len(logs),
     prompt_tokens |-> SumColumn(logs, "prompt_tokens"),
     completion_tokens |-> SumColumn(logs, "completion_tokens"),
     total_tokens |-> SumColumn(logs, "total_tokens"),
     success_count |-> Len(SelectSeq(logs, LAMBDA r : r.success)),
     failure_count |-> Len(SelectSeq(logs, LAMBDA r : ~ r.success))]

(* get_metrics_summary: counts and token sums of the rows created at or    *)
(* after now - window_hours (cost, latency and the daily trend left out)   *)
GetMetricsSummary(logs, window_hours, now) ==
    LET since == now - window_hours
        base == SelectSeq(logs, LAMBDA r : r.created_at >= since)
    IN [total_queries |-> Len(base),
        prompt_tokens |-> SumColumn(base, "prompt_tokens"),
        completion_tokens |-> SumColumn(base, "completion_tokens"),
        total_tokens |-> SumColumn(base, "total_tokens"),
        success_count |-> Len(SelectSeq(base, LAMBDA r : r.success)),
        failure_count |-> Len(SelectSeq(base, LAMBDA r : ~ r.success))]

----------------------------------------------------------------------------
(* LLM client: groq_client.py *)

(* _resolve_rag_prompt_template: the active template, else ensure the default *)
ResolveRagPromptTemplate(templates) ==
    LET prompt_template == GetActivePromptTemplate(templates, RAG_PROMPT_TEMPLATE_KEY)
    IN IF prompt_template # NoTemplate
       THEN [templates |-> templates, row |-> prompt_template]
       ELSE EnsurePromptTemplate(templates, RAG_PROMPT_TEMPLATE_KEY, "default")

(* what the LLM API does with one request: a completion, or an error *)
Completion(answer) ==
    [ok |-> TRUE, answer |-> answer, prompt_tokens |-> 100, completion_tokens |-> 50]
LLMError ==
    [ok |-> FALSE, answer |-> "", prompt_tokens |-> 0, completion_tokens |-> 0]

(* a completion whose usage block reports the given token counts *)
CompletionWithUsage(answer, prompt_tokens, completion_tokens) ==
    [ok |-> TRUE, answer |-> answer, prompt_tokens |-> prompt_tokens,
     completion_tokens |-> completion_tokens]

(* a generate_answer whose except branch re-raises without logging *)
GenerateAnswer_NoFailureLog(templates, logs, question, context, conversation_history, conversation_id, llm) ==
    LET resolved == ResolveRagPromptTemplate(templates)
        prompt_info == resolved.row
        messages == <<[role |-> "system", content |-> "prompt"]>>
                    \o conversation_history
                    \o <<[role |-> "user", content |-> question]>>
    IN IF llm.ok
       THEN [templates |-> resolved.templates,
             logs |-> LogLLMRequest(logs, conversation_id, question,
                          prompt_info.template_key, prompt_info.version,
                          llm.answer, llm.prompt_tokens, llm.completion_tokens, TRUE),
             raised |-> FALSE, answer |-> llm.answer, messages |-> messages,
             prompt_template_version |-> prompt_info.version,
             events |-> <<"llm_call", "llm_returned", "log_row", "generate_return">>]
       ELSE [templates |-> resolved.templates, logs |-> logs,
             raised |-> TRUE, answer |-> "", messages |-> messages,
             prompt_template_version |-> prompt_info.version,
             events |-> <<"llm_call", "llm_raised", "generate_raise">>]

(* a generate_answer whose except branch logs and returns an empty answer *)
GenerateAnswer_SwallowsError(templates, logs, question, context, conversation_history, conversation_id, llm) ==
    LET resolved == ResolveRagPromptTemplate(templates)
        prompt_info == resolved.row
        messages == <<[role |-> "system", content |-> "prompt"]>>
                    \o conversation_history
                    \o <<[role |-> "user", content |-> question]>>
    IN [templates |-> resolved.templates,
        logs |-> LogLLMRequest(logs, conversation_id, question,
                     prompt_info.template_key, prompt_info.version,
                     llm.answer, llm.prompt_tokens, llm.completion_tokens, llm.ok),
        raised |-> FALSE, answer |-> llm.answer, messages |-> messages,
        prompt_template_version |-> prompt_info.version,
        events |-> <<"llm_call", IF llm.ok THEN "llm_returned" ELSE "llm_raised",
                     "log_row", "generate_return">>]

(* generate_answer: render the template, call the LLM, log the attempt,   *)
(* return the answer or re-raise                                          *)
GenerateAnswer(templates, logs, question, context, conversation_history, conversation_id, llm) ==
    LET resolved == ResolveRagPromptTemplate(templates)
        prompt_info == resolved.row
        messages == <<[role |-> "system", content |-> "prompt"]>>
                    \o conversation_history
                    \o <<[role |-> "user", content |-> question]>>
    IN IF llm.ok
       THEN [templates |-> resolved.templates,
             logs |-> LogLLMRequest(logs, conversation_id, question,
                          prompt_info.template_key, prompt_info.version,
                          llm.answer, llm.prompt_tokens, llm.completion_tokens, TRUE),
             raised |-> FALSE, answer |-> llm.answer, messages |-> messages,
             prompt_template_version |-> prompt_info.version,
             events |-> <<"llm_call", "llm_returned", "log_row", "generate_return">>]
       ELSE [templates |-> resolved.templates,
             logs |-> LogLLMRequest(logs, conversation_id, question,
                          prompt_info.template_key, prompt_info.version,
                          "", 0, 0, FALSE),
             raised |-> TRUE, answer |-> "", messages |-> messages,
             prompt_template_version |-> prompt_info.version,
             events |-> <<"llm_call", "llm_raised", "log_row", "generate_raise">>]

----------------------------------------------------------------------------
(* RAG engine, answer side: rag_engine.py and chroma_db.py *)

TOP_K_RESULTS == 2             \* environment setting TOP_K_RESULTS (default 5)
MaxHistoryMessages == 20       \* "keep only last 10 exchanges (20 messages)"

NoConv == 0                    \* conversation_id = None
NoneList == <<Absent>>         \* document_ids = None
NoInformationAnswer == "I couldn't find any relevant information"

(* the where filter built by search_similar_chunks *)
WhereMatches(document_ids, metadata) ==
    IF document_ids = NoneList \/ Len(document_ids) = 0 THEN TRUE
    ELSE IF Len(document_ids) = 1 THEN metadata.document_id = document_ids[1]
    ELSE \E k \in 1..Len(document_ids) : metadata.document_id = document_ids[k]

(* orders in which the store can rank its rows by distance: nearest row  *)
(* first in insertion order, or last inserted first                      *)
Rankings(coll) ==
    {[i \in 1..Len(coll) |-> i], [i \in 1..Len(coll) |-> Len(coll) + 1 - i]}

(* a search that hands back the rows although the query raised *)
SearchSimilarChunks_IgnoresFailure(coll, document_ids, top_k, queryFail, rank) ==
    LET order == IF Len(rank) = Len(coll) THEN rank ELSE [i \in 1..Len(coll) |-> i]
        ranked == [i \in 1..Len(coll) |->
                      [metadata |-> coll[order[i]], distance |-> i]]
        matching == SelectSeq(ranked,
                        LAMBDA c : WhereMatches(document_ids, c.metadata))
    IN SubSeq(matching, 1, Min(top_k, Len(matching)))

(* search_similar_chunks: the top_k nearest rows passing the filter, in    *)
(* rank order; an error of the query is swallowed and gives no rows        *)
SearchSimilarChunks(coll, document_ids, top_k, queryFail, rank) ==
    IF queryFail THEN <<>>
    ELSE LET ranked == [i \in 1..Len(coll) |->
                           [metadata |-> coll[rank[i]], distance |-> i]]
             matching == SelectSeq(ranked,
                             LAMBDA c : WhereMatches(document_ids, c.metadata))
         IN SubSeq(matching, 1, Min(top_k, Len(matching)))

(* _build_context: one labelled entry per chunk, in the given order *)
BuildContext(chunks) ==
    [i \in 1..Len(chunks) |->
        [source |-> i, filename |-> chunks[i].metadata.filename,
         document_id |-> chunks[i].metadata.document_id,
         chunk_id |-> chunks[i].metadata.chunk_id]]

(* sources listed from the least similar chunk to the most similar *)
FormatSources_Reversed(chunks) ==
    [i \in 1..Len(chunks) |->
        [document_id |-> chunks[Len(chunks) + 1 - i].metadata.document_id,
         document_name |-> chunks[Len(chunks) + 1 - i].metadata.filename,
         chunk_id |-> chunks[Len(chunks) + 1 - i].metadata.chunk_id,
         distance |-> chunks[Len(chunks) + 1 - i].distance]]

(* _format_sources: one source per chunk, in the given order *)
FormatSources(chunks) ==
    [i \in 1..Len(chunks) |->
        [document_id |-> chunks[i].metadata.document_id,
         document_name |-> chunks[i].metadata.filename,
         chunk_id |-> chunks[i].metadata.chunk_id,
         distance |-> chunks[i].distance]]

(* self.conversations.get(conversation_id, []) *)
GetConversationHistory(convs, conversation_id) ==
    IF conversation_id \in DOMAIN convs THEN convs[conversation_id] ELSE <<>>

(* an update that keeps the first 20 messages instead of the last 20 *)
UpdateConversation_KeepOldest(convs, conversation_id, question, answer) ==
    LET appended == GetConversationHistory(convs, conversation_id)
                    \o <<[role |-> "user", content |-> question],
                         [role |-> "assistant", content |-> answer]>>
        kept == IF Len(appended) > MaxHistoryMessages
                THEN SubSeq(appended, 1, MaxHistoryMessages)
                ELSE appended
    IN [c \in DOMAIN convs \cup {conversation_id} |->
           IF c = conversation_id THEN kept ELSE convs[c]]

(* an update that stores the answer before the question *)
UpdateConversation_AnswerFirst(convs, conversation_id, question, answer) ==
    LET appended == GetConversationHistory(convs, conversation_id)
                    \o <<[role |-> "assistant", content |-> answer],
                         [role |-> "user", content |-> question]>>
        kept == IF Len(appended) > MaxHistoryMessages
                THEN SubSeq(appended, Len(appended) - MaxHistoryMessages + 1,
                            Len(appended))
                ELSE appended
    IN [c \in DOMAIN convs \cup {conversation_id} |->
           IF c = conversation_id THEN kept ELSE convs[c]]

(* _update_conversation: append question and answer, keep the last 20 *)
UpdateConversation(convs, conversation_id, question, answer) ==
    LET appended == GetConversationHistory(convs, conversation_id)
                    \o <<[role |-> "user", content |-> question],
                         [role |-> "assistant", content |-> answer]>>
        kept == IF Len(appended) > MaxHistoryMessages
                THEN SubSeq(appended, Len(appended) - MaxHistoryMessages + 1,
                            Len(appended))
                ELSE appended
    IN [c \in DOMAIN convs \cup {conversation_id} |->
           IF c = conversation_id THEN kept ELSE convs[c]]

(* _update_conversation on concurrent threads, one statement per step.    *)
(* The call's search and LLM request have returned when it begins; the     *)
(* frame keeps the histories as they were at that moment.                  *)

(* an append that leaves the list as it is *)
AppendMessage_Drops(convs, conversation_id, role, content) == convs

(* self.conversations[conversation_id].append({...}) *)
AppendMessage(convs, conversation_id, role, content) ==
    [convs EXCEPT ![conversation_id] =
        Append(@, [role |-> role, content |-> content])]

BeginUpdateConversation(thread, conversation_id, question, llm) ==
    LET relevant_chunks == SearchSimilarChunks(collection, NoneList,
                               TOP_K_RESULTS, FALSE, <<1>>)
        llm_result == GenerateAnswer(prompt_templates, llm_request_logs, question,
                          BuildContext(relevant_chunks),
                          GetConversationHistory(conversations, conversation_id),
                          conversation_id, llm)
        together == {t \in DOMAIN calls : calls[t].conversation_id = conversation_id}
    IN
    /\ thread \notin DOMAIN calls
    /\ llm_request_logs' = llm_result.logs
    /\ prompt_templates' = llm_result.templates
    /\ calls' = [t \in DOMAIN calls \cup {thread} |->
                    IF t = thread
                    THEN [pc |-> "test", conversation_id |-> conversation_id,
                          question |-> question, answer |-> llm_result.answer,
                          before |-> conversations, sliced |-> <<>>,
                          overlapped |-> together # {}]
                    ELSE IF t \in together
                    THEN [calls[t] EXCEPT !.overlapped = TRUE]
                    ELSE calls[t]]
    /\ UNCHANGED <<collection, next_uuid, conversations, next_conv,
                   pdf_processor, result, trace, rate_limiter, clock>>

(* if conversation_id not in self.conversations: *)
TestConversation(thread) ==
    /\ thread \in DOMAIN calls
    /\ calls[thread].pc = "test"
    /\ calls' = [calls EXCEPT ![thread].pc =
                    IF calls[thread].conversation_id \notin DOMAIN conversations
                    THEN "create" ELSE "append_user"]
    /\ UNCHANGED <<collection, next_uuid, conversations, next_conv,
                   llm_request_logs, prompt_templates, pdf_processor, result,
                   trace, rate_limiter, clock>>

(* self.conversations[conversation_id] = [] *)
CreateConversation(thread) ==
    /\ thread \in DOMAIN calls
    /\ calls[thread].pc = "create"
    /\ conversations' =
           [c \in DOMAIN conversations \cup {calls[thread].conversation_id} |->
               IF c = calls[thread].conversation_id THEN <<>>
               ELSE conversations[c]]
    /\ calls' = [calls EXCEPT ![thread].pc = "append_user"]
    /\ UNCHANGED <<collection, next_uuid, next_conv, llm_request_logs,
                   prompt_templates, pdf_processor, result, trace,
                   rate_limiter, clock>>

(* the append of the user message *)
AppendUser(thread) ==
    /\ thread \in DOMAIN calls
    /\ calls[thread].pc = "append_user"
    /\ conversations' = AppendMessage(conversations, calls[thread].conversation_id,
                                      "user", calls[thread].question)
    /\ calls' = [calls EXCEPT ![thread].pc = "append_assistant"]
    /\ UNCHANGED <<collection, next_uuid, next_conv, llm_request_logs,
                   prompt_templates, pdf_processor, result, trace,
                   rate_limiter, clock>>

(* the append of the assistant message *)
AppendAssistant(thread) ==
    /\ thread \in DOMAIN calls
    /\ calls[thread].pc = "append_assistant"
    /\ conversations' = AppendMessage(conversations, calls[thread].conversation_id,
                                      "assistant", calls[thread].answer)
    /\ calls' = [calls EXCEPT ![thread].pc = "check"]
    /\ UNCHANGED <<collection, next_uuid, next_conv, llm_request_logs,
                   prompt_templates, pdf_processor, result, trace,
                   rate_limiter, clock>>

(* the return of answer_question on the thread *)
ReturnAnswer(thread) ==
    /\ result' = [op |-> "answer_question", thread |-> thread,
                  conversation_id |-> calls[thread].conversation_id,
                  question |-> calls[thread].question,
                  answer |-> calls[thread].answer, raised |-> FALSE,
                  before |-> calls[thread].before,
                  overlapped |-> calls[thread].overlapped]
    /\ calls' = [t \in DOMAIN calls \ {thread} |-> calls[t]]
    /\ trace' = <<"update_conversation", "return">>

(* if len(self.conversations[conversation_id]) > 20: not taken *)
CheckLength(thread) ==
    /\ thread \in DOMAIN calls
    /\ calls[thread].pc = "check"
    /\ IF Len(conversations[calls[thread].conversation_id]) > MaxHistoryMessages
       THEN /\ calls' = [calls EXCEPT ![thread].pc = "slice"]
            /\ UNCHANGED <<result, trace>>
       ELSE ReturnAnswer(thread)
    /\ UNCHANGED <<collection, next_uuid, conversations, next_conv,
                   llm_request_logs, prompt_templates, pdf_processor,
                   rate_limiter, clock>>

(* the right-hand side self.conversations[conversation_id][-20:] *)
SliceHistory(thread) ==
    /\ thread \in DOMAIN calls
    /\ calls[thread].pc = "slice"
    /\ LET history == conversations[calls[thread].conversation_id]
       IN calls' = [calls EXCEPT
                       ![thread].sliced =
                           SubSeq(history,
                                  Max(1, Len(history) - MaxHistoryMessages + 1),
                                  Len(history)),
                       ![thread].pc = "store"]
    /\ UNCHANGED <<collection, next_uuid, conversations, next_conv,
                   llm_request_logs, prompt_templates, pdf_processor, result,
                   trace, rate_limiter, clock>>

(* the assignment of the slice, then the return *)
StoreHistory(thread) ==
    /\ thread \in DOMAIN calls
    /\ calls[thread].pc = "store"
    /\ conversations' = [conversations EXCEPT
                            ![calls[thread].conversation_id] = calls[thread].sliced]
    /\ ReturnAnswer(thread)
    /\ UNCHANGED <<collection, next_uuid, next_conv, llm_request_logs,
                   prompt_templates, pdf_processor, rate_limiter, clock>>

(* an answer pipeline that never takes the no-chunks early return *)
ShortCircuits_Never(relevant_chunks) == FALSE

(* "if not relevant_chunks": the early return of answer_question *)
ShortCircuits(relevant_chunks) == Len(relevant_chunks) = 0

AnswerResult(request, conversation_id, relevant_chunks, context, raised, error, answer, sources, version) ==
    [op |-> "answer_question", request |-> request,
     conversation_id |-> conversation_id, relevant_chunks |-> relevant_chunks,
     context |-> context, raised |-> raised, error |-> error, answer |-> answer, sources |-> sources,
     prompt_template_version |-> version]

AnswerQuestion(question, document_ids, supplied_id, embedFail, queryFail, rank, llm) ==
    LET request == [question |-> question, document_ids |-> document_ids,
                    conversation_id |-> supplied_id]
        conversation_id == IF supplied_id = NoConv THEN -(next_conv + 1)
                           ELSE supplied_id
        relevant_chunks == SearchSimilarChunks(collection, document_ids,
                                               TOP_K_RESULTS, queryFail, rank)
        searched == IF queryFail THEN <<"embed", "search_error">>
                    ELSE <<"embed", "search">>
        context == BuildContext(relevant_chunks)
        conversation_history == GetConversationHistory(conversations, conversation_id)
        llm_result == GenerateAnswer(prompt_templates, llm_request_logs, question,
                                     context, conversation_history,
                                     conversation_id, llm)
        sources == FormatSources(relevant_chunks)
    IN
    /\ next_conv' = IF supplied_id = NoConv THEN next_conv + 1 ELSE next_conv
    /\ IF embedFail
       THEN /\ result' = AnswerResult(request, conversation_id, <<>>, <<>>, TRUE,
                                      "embed", "", <<>>, 0)
            /\ trace' = <<"embed_error", "raise">>
            /\ UNCHANGED <<conversations, llm_request_logs, prompt_templates>>
       ELSE IF ShortCircuits(relevant_chunks)
       THEN /\ result' = AnswerResult(request, conversation_id, relevant_chunks,
                                      <<>>, FALSE, "", NoInformationAnswer, <<>>, 0)
            /\ trace' = searched \o <<"return">>
            /\ UNCHANGED <<conversations, llm_request_logs, prompt_templates>>
       ELSE /\ prompt_templates' = llm_result.templates
            /\ llm_request_logs' = llm_result.logs
            /\ IF llm_result.raised
               THEN /\ result' = AnswerResult(request, conversation_id,
                                      relevant_chunks, context, TRUE, "llm", "", <<>>,
                                      llm_result.prompt_template_version)
                    /\ trace' = searched \o llm_result.events \o <<"raise">>
                    /\ UNCHANGED conversations
               ELSE /\ conversations' = UpdateConversation(conversations,
                                            conversation_id, question,
                                            llm_result.answer)
                    /\ result' = AnswerResult(request, conversation_id,
                                      relevant_chunks, context, FALSE, "",
                                      llm_result.answer, sources,
                                      llm_result.prompt_template_version)
                    /\ trace' = searched \o llm_result.events
                                \o <<"update_conversation", "return">>
    /\ UNCHANGED <<collection, next_uuid, pdf_processor,
                   calls, rate_limiter, clock>>

----------------------------------------------------------------------------
(* State after construction *)

DefaultProcessor == [chunk_size |-> 500, chunk_overlap |-> 50]

Init ==
    /\ collection = <<>>
    /\ next_uuid = 0
    /\ conversations = [c \in {} |-> <<>>]
    /\ next_conv = 0
    /\ llm_request_logs = <<>>
    /\ prompt_templates =
           EnsurePromptTemplate(<<>>, RAG_PROMPT_TEMPLATE_KEY, "default").templates
    /\ pdf_processor = DefaultProcessor
    /\ result = [op |-> "init"]
    /\ trace = <<>>
    /\ calls = NoCalls
    /\ rate_limiter = RateLimiter(RequestsPerMinute)
    /\ clock = 0

Ingest ==
    \E filename \in Filenames, content_hash \in Hashes, fault \in IngestFaults :
      \E nChunks \in (IF fault \in {"none", "add"} THEN ChunkCounts ELSE {0}),
         listFail \in (IF fault = "hash" THEN {FALSE} ELSE BOOLEAN) :
        \E scanFailAt \in (IF listFail \/ fault = "hash" THEN {0}
                            ELSE 0..Cardinality({collection[i].document_id :
                                                    i \in 1..Len(collection)})),
           written \in (IF fault = "add" THEN 0..Max(0, nChunks - 1) ELSE {0}) :
          ProcessDocument(filename, content_hash, nChunks, fault, listFail,
                          scanFailAt, written)

Delete ==
    \E document_id \in DocIds, getFail \in BOOLEAN, deleteFail \in BOOLEAN :
        DeleteDocument(document_id, getFail, deleteFail)

Next ==
    \/ Ingest
    \/ Delete

Spec == Init /\ [][Next]_vars

(* The observability service on a fresh database *)
InitTemplates ==
    /\ collection = <<>>
    /\ next_uuid = 0
    /\ conversations = [c \in {} |-> <<>>]
    /\ next_conv = 0
    /\ llm_request_logs = <<>>
    /\ prompt_templates = <<>>
    /\ pdf_processor = DefaultProcessor
    /\ result = [op |-> "init"]
    /\ trace = <<>>
    /\ calls = NoCalls
    /\ rate_limiter = RateLimiter(RequestsPerMinute)
    /\ clock = 0

EnsureTemplate ==
    \E template_key \in TemplateKeys, template_text \in TemplateTexts :
        EnsurePromptTemplateCall(template_key, template_text)

CreateVersion ==
    \E template_key \in TemplateKeys, template_text \in TemplateTexts,
       activate \in BOOLEAN :
        CreatePromptVersionCall(template_key, template_text, activate)

NextTemplates ==
    \/ EnsureTemplate
    \/ CreateVersion

SpecTemplates == InitTemplates /\ [][NextTemplates]_vars

(* The answer pipeline over a store that earlier uploads have filled *)
MaxLogs == 2          \* LLM calls in one behaviour of SpecAnswer
MaxGenerated == 2     \* conversation ids generated in one behaviour
MaxExchanges == 12    \* LLM calls in one behaviour of SpecHistory

Questions == {"q1", "q2"}
SuppliedConversationIds == {NoConv, 1}
DocumentIdLists == {NoneList, <<>>, <<2>>, <<1, 2>>, <<3>>}

OneDocument == NewRows(1, "a.pdf", "h1", 1)
TwoDocuments == NewRows(1, "a.pdf", "h1", 2) \o NewRows(2, "b.pdf", "h2", 1)

InitAnswer ==
    /\ collection \in {<<>>, TwoDocuments}
    /\ next_uuid = Cardinality({collection[i].document_id : i \in 1..Len(collection)})
    /\ conversations = [c \in {} |-> <<>>]
    /\ next_conv = 0
    /\ llm_request_logs = <<>>
    /\ prompt_templates =
           EnsurePromptTemplate(<<>>, RAG_PROMPT_TEMPLATE_KEY, "default").templates
    /\ pdf_processor = DefaultProcessor
    /\ result = [op |-> "init"]
    /\ trace = <<>>
    /\ calls = NoCalls
    /\ rate_limiter = RateLimiter(RequestsPerMinute)
    /\ clock = 0

Ask ==
    \E question \in Questions, document_ids \in DocumentIdLists,
       supplied_id \in SuppliedConversationIds,
       fault \in {"none", "embed", "query", "llm"} :
      \E rank \in (IF fault \in {"embed", "query"} THEN {<<>>}
                    ELSE Rankings(collection)) :
        /\ Len(llm_request_logs) < MaxLogs
        /\ supplied_id = NoConv => next_conv < MaxGenerated
        /\ AnswerQuestion(question, document_ids, supplied_id, fault = "embed",
                          fault = "query", rank,
                          IF fault = "llm" THEN LLMError ELSE Completion("a1"))

NextAnswer == Ask

SpecAnswer == InitAnswer /\ [][NextAnswer]_vars

(* One long conversation *)
InitHistory ==
    /\ collection = OneDocument
    /\ next_uuid = 1
    /\ conversations = [c \in {} |-> <<>>]
    /\ next_conv = 0
    /\ llm_request_logs = <<>>
    /\ prompt_templates =
           EnsurePromptTemplate(<<>>, RAG_PROMPT_TEMPLATE_KEY, "default").templates
    /\ pdf_processor = DefaultProcessor
    /\ result = [op |-> "init"]
    /\ trace = <<>>
    /\ calls = NoCalls
    /\ rate_limiter = RateLimiter(RequestsPerMinute)
    /\ clock = 0

Converse ==
    \E question \in Questions :
        /\ Len(llm_request_logs) < MaxExchanges
        /\ AnswerQuestion(question, NoneList, 1, FALSE, FALSE, <<1>>,
                          Completion("a1"))

NextHistory == Converse

SpecHistory == InitHistory /\ [][NextHistory]_vars

(* The request log over time: LLM calls and metric summaries, time in hours *)
MaxMetricCalls == 3   \* LLM calls in one behaviour of SpecMetrics
MaxTime == 3          \* latest hour on the clock

WindowHours == {1, 2, 24}
Usages == {<<100, 50>>, <<200, 75>>, <<50, 25>>}

(* the current time never precedes the stamp of a row already written *)
Times(logs) ==
    {t \in 0..MaxTime : \A i \in 1..Len(logs) : logs[i].created_at <= t}

InitMetrics ==
    /\ collection = OneDocument
    /\ next_uuid = 1
    /\ conversations = [c \in {} |-> <<>>]
    /\ next_conv = 0
    /\ llm_request_logs = <<>>
    /\ prompt_templates =
           EnsurePromptTemplate(<<>>, RAG_PROMPT_TEMPLATE_KEY, "default").templates
    /\ pdf_processor = DefaultProcessor
    /\ result = [op |-> "init"]
    /\ trace = <<>>
    /\ calls = NoCalls
    /\ rate_limiter = RateLimiter(RequestsPerMinute)
    /\ clock = 0

(* one generate_answer call at time now; its log row is stamped on insert *)
GenerateAnswerCall(now, llm) ==
    /\ Len(llm_request_logs) < MaxMetricCalls
    /\ LET r == GenerateAnswer(prompt_templates, llm_request_logs, "q1", <<>>,
                               <<>>, 1, llm)
       IN /\ llm_request_logs' = StampCreatedAt(r.logs, now)
          /\ prompt_templates' = r.templates
          /\ result' = [op |-> "generate_answer", now |-> now, raised |-> r.raised]
          /\ trace' = r.events
    /\ UNCHANGED <<collection, next_uuid, conversations, next_conv, pdf_processor,
                   calls, rate_limiter, clock>>

GetMetricsSummaryCall(window_hours, now) ==
    /\ result' = [op |-> "get_metrics_summary", window_hours |-> window_hours,
                  now |-> now,
                  summary |-> GetMetricsSummary(llm_request_logs, window_hours, now)]
    /\ trace' = <<"get_metrics_summary">>
    /\ UNCHANGED <<collection, next_uuid, conversations, next_conv,
                   llm_request_logs, prompt_templates, pdf_processor,
                   calls, rate_limiter, clock>>

CallLLM ==
    \E now \in Times(llm_request_logs) :
        \/ \E u \in Usages : GenerateAnswerCall(now, CompletionWithUsage("a1", u[1], u[2]))
        \/ GenerateAnswerCall(now, LLMError)

Summarise ==
    \E now \in Times(llm_request_logs), window_hours \in WindowHours :
        GetMetricsSummaryCall(window_hours, now)

NextMetrics ==
    \/ CallLLM
    \/ Summarise

SpecMetrics == InitMetrics /\ [][NextMetrics]_vars

(* Prompt versions created through the service before and after the LLM   *)
(* client is constructed and used                                         *)
GenerateWithTemplate(llm) ==
    /\ Len(llm_request_logs) < MaxLogs
    /\ LET constructed == EnsurePromptTemplate(prompt_templates,
                              RAG_PROMPT_TEMPLATE_KEY, "default").templates
           r == GenerateAnswer(constructed, llm_request_logs, "q1", <<>>, <<>>,
                               1, llm)
       IN /\ prompt_templates' = r.templates
          /\ llm_request_logs' = r.logs
          /\ result' = [op |-> "generate_answer", raised |-> r.raised,
                        prompt_template_key |-> RAG_PROMPT_TEMPLATE_KEY,
                        prompt_template_version |-> r.prompt_template_version]
          /\ trace' = r.events
    /\ UNCHANGED <<collection, next_uuid, conversations, next_conv, pdf_processor,
                   calls, rate_limiter, clock>>

Generate == \E llm \in {Completion("a1"), LLMError} : GenerateWithTemplate(llm)

NextPrompt ==
    \/ EnsureTemplate
    \/ CreateVersion
    \/ Generate

SpecPrompt == InitTemplates /\ [][NextPrompt]_vars

(* Answers on two threads: conversation 1 holds nine exchanges, every     *)
(* other conversation id is new                                            *)
PriorExchanges == 9   \* exchanges of conversation 1 before the threads start
MaxRaceCalls == 2     \* answer_question calls of the two threads together

RECURSIVE Exchanged(_)
Exchanged(n) ==
    IF n = 0
    THEN [conversations |-> [c \in {} |-> <<>>], logs |-> <<>>,
          templates |-> EnsurePromptTemplate(<<>>, RAG_PROMPT_TEMPLATE_KEY,
                                             "default").templates]
    ELSE LET before == Exchanged(n - 1)
             llm_result == GenerateAnswer(before.templates, before.logs, "q1",
                               BuildContext(SearchSimilarChunks(OneDocument,
                                   NoneList, TOP_K_RESULTS, FALSE, <<1>>)),
                               GetConversationHistory(before.conversations, 1),
                               1, Completion("a1"))
         IN [conversations |-> UpdateConversation(before.conversations, 1, "q1",
                                                  llm_result.answer),
             logs |-> llm_result.logs, templates |-> llm_result.templates]

InitConverse ==
    /\ collection = OneDocument
    /\ next_uuid = 1
    /\ conversations = Exchanged(PriorExchanges).conversations
    /\ next_conv = 0
    /\ llm_request_logs = Exchanged(PriorExchanges).logs
    /\ prompt_templates = Exchanged(PriorExchanges).templates
    /\ pdf_processor = DefaultProcessor
    /\ result = [op |-> "init"]
    /\ trace = <<>>
    /\ calls = NoCalls
    /\ rate_limiter = RateLimiter(RequestsPerMinute)
    /\ clock = 0

NextConverse ==
    \/ \E thread \in Threads, conversation_id \in {1, 2}, question \in Questions :
           /\ Len(llm_request_logs) < PriorExchanges + MaxRaceCalls
           /\ BeginUpdateConversation(thread, conversation_id, question,
                                      Completion("a1"))
    \/ \E thread \in Threads : TestConversation(thread)
    \/ \E thread \in Threads : CreateConversation(thread)
    \/ \E thread \in Threads : AppendUser(thread)
    \/ \E thread \in Threads : AppendAssistant(thread)
    \/ \E thread \in Threads : CheckLength(thread)
    \/ \E thread \in Threads : SliceHistory(thread)
    \/ \E thread \in Threads : StoreHistory(thread)

SpecConverse == InitConverse /\ [][NextConverse]_vars

(* The rate limiter.  time.time() is read in seconds; the clock advances  *)
(* between requests and never during one.                                 *)
TickSeconds == 20     \* seconds the clock advances in one step
MaxClock == 80        \* latest reading of the clock
ClientIps == {"10.0.0.1", "unknown"}

(* self.requests[client_ip] of the defaultdict(list) *)
RequestsOf(limiter, client_ip) ==
    IF client_ip \in DOMAIN limiter.requests THEN limiter.requests[client_ip]
    ELSE <<>>

(* a limiter that keeps the times of the last minute, its bound included *)
CleanOldRequests_Inclusive(times, now) ==
    LET minute_ago == now - 60
    IN SelectSeq(times, LAMBDA req_time : req_time >= minute_ago)

(* [req_time for req_time in self.requests[client_ip] if req_time > minute_ago] *)
CleanOldRequests(times, now) ==
    LET minute_ago == now - 60
    IN SelectSeq(times, LAMBDA req_time : req_time > minute_ago)

(* is_allowed: the cleaned list is stored; the request is refused when it *)
(* holds requests_per_minute times, recorded otherwise                    *)
IsAllowed(limiter, client_ip, now) ==
    LET cleaned == CleanOldRequests(RequestsOf(limiter, client_ip), now)
        allowed == ~ (Len(cleaned) >= limiter.requests_per_minute)
        stored == IF allowed THEN Append(cleaned, now) ELSE cleaned
    IN [allowed |-> allowed,
        limiter |-> [limiter EXCEPT !.requests =
                        [c \in DOMAIN limiter.requests \cup {client_ip} |->
                            IF c = client_ip THEN stored
                            ELSE limiter.requests[c]]]]

(* the times at which each client was admitted so far, kept with the call *)
AdmittedSoFar ==
    IF result.op = "is_allowed" THEN result.admitted
    ELSE [c \in ClientIps |-> <<>>]

(* rate_limit_middleware: one request of the client at the current time *)
IsAllowedCall ==
    \E client_ip \in ClientIps :
        LET outcome == IsAllowed(rate_limiter, client_ip, clock)
        IN /\ rate_limiter' = outcome.limiter
           /\ result' = [op |-> "is_allowed", client_ip |-> client_ip,
                         now |-> clock, allowed |-> outcome.allowed,
                         admitted |-> IF outcome.allowed
                                      THEN [AdmittedSoFar EXCEPT ![client_ip] =
                                                Append(@, clock)]
                                      ELSE AdmittedSoFar]
           /\ trace' = IF outcome.allowed THEN <<"call_next">> ELSE <<"429">>
           /\ UNCHANGED <<collection, next_uuid, conversations, next_conv,
                          llm_request_logs, prompt_templates, pdf_processor,
                          calls, clock>>

(* time passes *)
Tick ==
    /\ clock + TickSeconds <= MaxClock
    /\ clock' = clock + TickSeconds
    /\ UNCHANGED <<collection, next_uuid, conversations, next_conv,
                   llm_request_logs, prompt_templates, pdf_processor, result,
                   trace, calls, rate_limiter>>

NextLimiter == IsAllowedCall \/ Tick

SpecLimiter == InitTemplates /\ [][NextLimiter]_vars

(* Health probes.  Each probe catches Exception and returns a boolean; an *)
(* interrupt (a BaseException that is no Exception) passes through it.    *)
ProbeOutcomes == {"ok", "not_ok", "error", "interrupt"}

(* GroqClient.test_connection: bool(response.choices), False on Exception; *)
(* ChromaDBHandler.test_connection: True once collection.count() returns;  *)
(* EmbeddingService.test_embedding: the dimension test, False on Exception *)
TestConnection(outcome) ==
    [raised |-> outcome = "interrupt", ok |-> outcome = "ok"]

(* one component of health_check: 'healthy' if ok else 'unhealthy'; the   *)
(* bare except reports 'unhealthy' and degrades the status                *)
Component(probe) ==
    [state |-> IF ~ probe.raised /\ probe.ok THEN "healthy" ELSE "unhealthy",
     degrades |-> probe.raised]

HealthCheck(groq, chroma, embed) ==
    LET groq_api == Component(TestConnection(groq))
        chromadb == Component(TestConnection(chroma))
        embeddings == Component(TestConnection(embed))
    IN [op |-> "health_check", raised |-> FALSE,
        status |-> IF groq_api.degrades \/ chromadb.degrades \/ embeddings.degrades
                   THEN "degraded" ELSE "healthy",
        components |-> [groq_api |-> groq_api.state, chromadb |-> chromadb.state,
                        embeddings |-> embeddings.state]]

HealthCheckCall ==
    \E groq \in ProbeOutcomes, chroma \in ProbeOutcomes \ {"not_ok"},
       embed \in ProbeOutcomes :
        /\ result' = HealthCheck(groq, chroma, embed)
        /\ trace' = <<"test_connection", "test_connection", "test_embedding">>
        /\ UNCHANGED <<collection, next_uuid, conversations, next_conv,
                       llm_request_logs, prompt_templates, pdf_processor,
                       calls, rate_limiter, clock>>

(* Health checks between ingests and deletions *)
NextHealth == Ingest \/ Delete \/ HealthCheckCall

SpecHealth == Init /\ [][NextHealth]_vars

(* Two conversations, one call after the other, conversation 1 holding   *)
(* nine exchanges: answered calls, calls whose LLM request fails, calls   *)
(* that find no chunks and calls whose embedding fails.  The question     *)
(* alternates with the number of rows in the request log.                 *)
MaxTalk == 4          \* rows the calls of SpecTalk add to the request log

Talk ==
    \E supplied_id \in {1, 2}, outcome \in {"answered", "llm", "no_chunks", "embed"} :
      \E question \in {IF Len(llm_request_logs) % 2 = 0 THEN "q1" ELSE "q2"} :
        /\ outcome \in {"answered", "llm"}
               => Len(llm_request_logs) < PriorExchanges + MaxTalk
        /\ AnswerQuestion(question,
                          IF outcome = "no_chunks" THEN <<3>> ELSE NoneList,
                          supplied_id, outcome = "embed", FALSE, <<1>>,
                          IF outcome = "llm" THEN LLMError
                          ELSE Completion("a1"))

NextTalk == Talk

SpecTalk == InitConverse /\ [][NextTalk]_vars

(* Versions of the well-known key created from two threads *)
NextRace ==
    \/ \E thread \in Threads, template_text \in TemplateTexts, activate \in BOOLEAN :
           BeginCreatePromptVersion(thread, RAG_PROMPT_TEMPLATE_KEY, template_text,
                                    activate)
    \/ \E thread \in Threads : ReadLatestVersion(thread)
    \/ \E thread \in Threads : DeactivateActiveRows(thread)
    \/ \E thread \in Threads : InsertAndCommit(thread)

SpecRace == InitMetrics /\ [][NextRace]_vars

(* The chunker applied to one text, for every configuration 0 <= O < S *)
Texts == UNION {[1..n -> Chars] : n \in 0..MaxTextLen}

InitChunk ==
    /\ collection = <<>>
    /\ next_uuid = 0
    /\ conversations = [c \in {} |-> <<>>]
    /\ next_conv = 0
    /\ llm_request_logs = <<>>
    /\ prompt_templates = <<>>
    /\ pdf_processor \in {[chunk_size |-> S, chunk_overlap |-> O] :
                              S \in 1..MaxChunkSize, O \in 0..(MaxChunkSize - 1)}
    /\ pdf_processor.chunk_overlap < pdf_processor.chunk_size
    /\ result \in {[op |-> "text", text |-> t] : t \in Texts}
    /\ trace = <<>>
    /\ calls = NoCalls
    /\ rate_limiter = RateLimiter(RequestsPerMinute)
    /\ clock = 0

NextChunk ==
    \/ ChunkTextCall
    \/ ChunkCleanedCall

SpecChunk == InitChunk /\ [][NextChunk]_vars

(* The loop of chunk_text step by step; the loop runs on its own, so a    *)
(* step that is possible is eventually taken.  The loop tells characters  *)
(* apart only as word characters, whitespace and other boundaries.        *)
LoopChars == {"a", " ", "."}
LoopTexts == UNION {[1..n -> LoopChars] : n \in 0..MaxTextLen}

InitChunkLoop ==
    /\ collection = <<>>
    /\ next_uuid = 0
    /\ conversations = [c \in {} |-> <<>>]
    /\ next_conv = 0
    /\ llm_request_logs = <<>>
    /\ prompt_templates = <<>>
    /\ pdf_processor \in {[chunk_size |-> S, chunk_overlap |-> O] :
                              S \in 1..MaxChunkSize, O \in 0..(MaxChunkSize - 1)}
    /\ pdf_processor.chunk_overlap < pdf_processor.chunk_size
    /\ result \in {[op |-> "chunk_loop", input |-> t, text |-> CleanText(t),
                    start |-> 0, chunks |-> <<>>, iterations |-> 0,
                    pc |-> "loop"] : t \in LoopTexts}
    /\ trace = <<>>
    /\ calls = NoCalls
    /\ rate_limiter = RateLimiter(RequestsPerMinute)
    /\ clock = 0

NextChunkLoop == ChunkTextStep

SpecChunkLoop == InitChunkLoop /\ [][NextChunkLoop]_vars /\ WF_vars(ChunkTextStep)

(* The cleaner applied to one text and to a whitespace variant of it *)
InitClean ==
    /\ collection = <<>>
    /\ next_uuid = 0
    /\ conversations = [c \in {} |-> <<>>]
    /\ next_conv = 0
    /\ llm_request_logs = <<>>
    /\ prompt_templates = <<>>
    /\ pdf_processor = DefaultProcessor
    /\ result \in {[op |-> "text", text |-> t] : t \in Texts}
    /\ trace = <<>>
    /\ calls = NoCalls
    /\ rate_limiter = RateLimiter(RequestsPerMinute)
    /\ clock = 0

NextClean == \E stretched \in 0..MaxTextLen : stretched <= Len(result.text) /\ CleanTextCall(stretched)

SpecClean == InitClean /\ [][NextClean]_vars

----------------------------------------------------------------------------
(* Documents as seen through the store *)

LiveDocs(coll) == {coll[i].document_id : i \in 1..Len(coll)}

FirstRow(coll, d) ==
    CHOOSE i \in 1..Len(coll) :
        /\ coll[i].document_id = d
        /\ \A j \in 1..(i - 1) : coll[j].document_id # d

DocFilename(coll, d) == coll[FirstRow(coll, d)].filename

DocHashes(coll, d) ==
    {coll[i].content_hash : i \in {k \in 1..Len(coll) : coll[k].document_id = d}}

MatchesUpload(coll, d, filename, content_hash) ==
    \/ DocFilename(coll, d) = filename
    \/ content_hash \in DocHashes(coll, d)

(* the matching document that list_documents returns first *)
FirstMatch(coll, filename, content_hash) ==
    CHOOSE d \in LiveDocs(coll) :
        /\ MatchesUpload(coll, d, filename, content_hash)
        /\ \A e \in LiveDocs(coll) :
               MatchesUpload(coll, e, filename, content_hash)
                   => FirstRow(coll, d) <= FirstRow(coll, e)

ScanFailed(tr) ==
    \E i \in 1..Len(tr) : tr[i] \in {"list_documents_error", "check_duplicate_error"}

----------------------------------------------------------------------------
(* Claims about the ingest pipeline *)

(* C1: after any sequence of process_document and delete_document calls,   *)
(* no two live documents (distinct document ids with chunks in the store)  *)
(* share a filename, and no two share a content hash.                      *)
C1_UniqueDocuments ==
    \A i, j \in 1..Len(collection) :
        collection[i].document_id # collection[j].document_id
            => /\ collection[i].filename # collection[j].filename
               /\ collection[i].content_hash # collection[j].content_hash

(* C2 as stated: whenever the uploaded filename equals the filename of any *)
(* existing document the upload is rejected with match type 'filename',    *)
(* and it is rejected with match type 'content_hash' only when its hash    *)
(* matches an existing document and its filename matches none.  Stated for *)
(* uploads into a store whose documents are pairwise distinct in filename  *)
(* and hash, and whose duplicate scan met no store error.                  *)
C2_FilenameAlwaysWins ==
    [][(result'.op = "process_document" /\ result'.error # "hash"
        /\ ~ ScanFailed(trace') /\ C1_UniqueDocuments)
       => LET fn == result'.filename
              named == \E d \in LiveDocs(collection) : DocFilename(collection, d) = fn
          IN /\ named => /\ result'.status = "duplicate"
                         /\ result'.existing_doc.match_type = "filename"
             /\ result'.existing_doc.match_type = "content_hash" => ~ named]_vars

(* C2 as amended: the duplicate check reports the first existing document, *)
(* in listing order, that matches the upload by filename or by content     *)
(* hash, with match type 'filename' when that document's filename equals   *)
(* the uploaded one (even if its hash matches too) and 'content_hash'      *)
(* otherwise; when the scan meets no store error and some document         *)
(* matches, the upload is rejected as a duplicate.                         *)
C2_FirstListedMatchWins ==
    [][(result'.op = "process_document" /\ result'.error # "hash")
       => LET fn == result'.filename
              h == result'.content_hash
              found == result'.existing_doc
              some == \E d \in LiveDocs(collection) : MatchesUpload(collection, d, fn, h)
          IN /\ found # NoMatch
                  => /\ result'.status = "duplicate"
                     /\ some
                     /\ found.document_id = FirstMatch(collection, fn, h)
                     /\ found.filename = DocFilename(collection, found.document_id)
                     /\ found.match_type =
                            IF found.filename = fn THEN "filename" ELSE "content_hash"
             /\ (some /\ ~ ScanFailed(trace')) => found # NoMatch]_vars

(* an upload rejected by content hash although another document has its filename *)
C2_Witness ==
    /\ result.op = "process_document"
    /\ result.status = "duplicate"
    /\ result.existing_doc.match_type = "content_hash"
    /\ \E d \in LiveDocs(collection) : DocFilename(collection, d) = result.filename

(* C9: if hashing, text extraction, chunking or embedding fails during     *)
(* process_document, the call does not raise: it returns status 'failed'   *)
(* with the error message and a null document id, and the vector store     *)
(* holds exactly the chunks it held before the call.                       *)
C9_FailureLeavesStore ==
    [][(result'.op = "process_document"
        /\ \E i \in 1..Len(trace') :
               trace'[i] \in {"hash_error", "extract_error", "embed_error"})
       => /\ ~ result'.raised
          /\ result'.status = "failed"
          /\ result'.error \in {"hash", "extract", "embed"}
          /\ result'.document_id = NoDocId
          /\ collection' = collection]_vars

(* an embedding failure on a store that already holds chunks *)
C9_Witness ==
    /\ result.op = "process_document"
    /\ result.error = "embed"
    /\ Len(collection) > 0

(* C10: delete_document(d) on a live document removes every chunk whose    *)
(* document id is d, reports success with chunks_deleted equal to the      *)
(* number removed, leaves the chunks of every other document unchanged and *)
(* d is no longer listed; on a document with no chunks it reports failure  *)
(* with chunks_deleted = 0 and changes nothing.  (Calls in which the       *)
(* vector store itself does not raise.)                                    *)
C10_DeleteRemovesExactlyTheDocument ==
    [][(result'.op = "delete_document" /\ result'.error # "store")
       => LET d == result'.document_id
              mine == {i \in 1..Len(collection) : collection[i].document_id = d}
              listed == ListDocuments(collection', FALSE)
          IN IF mine # {}
             THEN /\ result'.success
                  /\ result'.chunks_deleted = Cardinality(mine)
                  /\ \A i \in 1..Len(collection') : collection'[i].document_id # d
                  /\ Len(collection') = Len(collection) - Cardinality(mine)
                  /\ \A e \in LiveDocs(collection) \ {d} :
                         GetByDocumentId(collection', e) = GetByDocumentId(collection, e)
                  /\ \A k \in 1..Len(listed) : listed[k].document_id # d
             ELSE /\ ~ result'.success
                  /\ result'.chunks_deleted = 0
                  /\ collection' = collection]_vars

(* a two-chunk document deleted while another document stays *)
C10_Witness ==
    /\ result.op = "delete_document"
    /\ result.success
    /\ result.chunks_deleted = 2
    /\ Len(collection) > 0

----------------------------------------------------------------------------
(* Claims about prompt-template versioning *)

ActiveRows(templates, template_key) ==
    {templates[i] : i \in {k \in RowsOfKey(templates, template_key) :
                               templates[k].is_active}}

(* C4: after any sequence of ensure_prompt_template and                    *)
(* create_prompt_version calls executed one at a time, every template key  *)
(* has at most one active row; after create_prompt_version(key,            *)
(* activate=true) the new version is the only active row of that key, and  *)
(* after create_prompt_version(key, activate=false) the set of active rows *)
(* of that key is unchanged.                                               *)
C4_OneActiveVersion ==
    /\ [](\A k \in TemplateKeys : Cardinality(ActiveRows(prompt_templates, k)) <= 1)
    /\ [][result'.op = "create_prompt_version"
          => LET k == result'.template_key IN
             /\ Len(prompt_templates') = Len(prompt_templates) + 1
             /\ prompt_templates'[Len(prompt_templates')] = result'.row
             /\ IF result'.activate
                THEN ActiveRows(prompt_templates', k) = {result'.row}
                ELSE ActiveRows(prompt_templates', k) = ActiveRows(prompt_templates, k)]_vars

(* version 2 activated while version 1 of the same key exists and was active *)
C4_Witness ==
    /\ result.op = "create_prompt_version"
    /\ result.activate
    /\ result.row.version = 2
    /\ \E i \in 1..Len(prompt_templates) :
           /\ prompt_templates[i].template_key = result.template_key
           /\ prompt_templates[i].version = 1
           /\ ~ prompt_templates[i].is_active
    /\ ActiveRows(prompt_templates, result.template_key) = {result.row}

----------------------------------------------------------------------------
(* Claims about the answer pipeline *)

(* the question/answer pairs of the successful LLM calls of a conversation *)
RECURSIVE Transcript(_, _)
Transcript(logs, c) ==
    IF logs = <<>> THEN <<>>
    ELSE LET row == logs[Len(logs)]
             before == Transcript(SubSeq(logs, 1, Len(logs) - 1), c)
         IN IF row.success /\ row.conversation_id = c
            THEN before \o <<[role |-> "user", content |-> row.question],
                             [role |-> "assistant", content |-> row.response_text]>>
            ELSE before

LastN(seq, n) == SubSeq(seq, Max(1, Len(seq) - n + 1), Len(seq))

(* C3: for every conversation id, after any number of answer_question      *)
(* exchanges the stored history never holds more than 20 messages, and     *)
(* when the cap is exceeded the oldest messages are dropped: the history   *)
(* is the most recent messages in their original order.                    *)
C3_HistoryCapped ==
    \A c \in DOMAIN conversations :
        /\ Len(conversations[c]) <= 20
        /\ conversations[c] = LastN(Transcript(llm_request_logs, c), 20)

(* more than ten exchanges made, and the first stored message is not the first asked *)
C3_Witness ==
    \E c \in DOMAIN conversations :
        /\ Len(Transcript(llm_request_logs, c)) > 20
        /\ Len(conversations[c]) = 20
        /\ conversations[c] # SubSeq(Transcript(llm_request_logs, c), 1, 20)

Occurrences(tr, e) == Cardinality({i \in 1..Len(tr) : tr[i] = e})
Position(tr, e) == CHOOSE i \in 1..Len(tr) : tr[i] = e

(* C5: when retrieval returns zero chunks, answer_question returns the     *)
(* fixed cannot-find-information answer with an empty source list and a    *)
(* conversation id (the supplied one, or a generated one), makes no LLM    *)
(* call, and writes no LLM request log row.                                *)
C5_NoChunksNoLLM ==
    [][(result'.op = "answer_question"
        /\ Occurrences(trace', "embed") = 1
        /\ result'.relevant_chunks = <<>>)
       => /\ ~ result'.raised
          /\ result'.answer = NoInformationAnswer
          /\ result'.sources = <<>>
          /\ result'.conversation_id # NoConv
          /\ result'.request.conversation_id # NoConv
                 => result'.conversation_id = result'.request.conversation_id
          /\ result'.request.conversation_id = NoConv
                 => result'.conversation_id \notin DOMAIN conversations
          /\ Occurrences(trace', "llm_call") = 0
          /\ llm_request_logs' = llm_request_logs
          /\ conversations' = conversations]_vars

(* a question asked without a conversation id on an empty store *)
C5_Witness ==
    /\ result.op = "answer_question"
    /\ collection = <<>>
    /\ result.request.conversation_id = NoConv
    /\ result.answer = NoInformationAnswer
    /\ result.conversation_id # NoConv
    /\ llm_request_logs = <<>>

(* C6: every LLM call made by generate_answer produces exactly one LLM     *)
(* request log row, written before generate_answer returns or raises; the  *)
(* row's success flag is true if and only if the LLM call returned a       *)
(* completion; on failure the error is re-raised only after the row is     *)
(* written.                                                                *)
C6_OneLogRowPerLLMCall ==
    [][result'.op = "answer_question"
       => IF Occurrences(trace', "llm_call") = 0
          THEN llm_request_logs' = llm_request_logs
          ELSE LET row == llm_request_logs'[Len(llm_request_logs')]
                   ended == IF Occurrences(trace', "llm_returned") = 1
                            THEN "generate_return" ELSE "generate_raise"
               IN /\ Occurrences(trace', "llm_call") = 1
                  /\ Occurrences(trace', "log_row") = 1
                  /\ Len(llm_request_logs') = Len(llm_request_logs) + 1
                  /\ SubSeq(llm_request_logs', 1, Len(llm_request_logs))
                         = llm_request_logs
                  /\ row.success <=> Occurrences(trace', "llm_returned") = 1
                  /\ row.conversation_id = result'.conversation_id
                  /\ row.question = result'.request.question
                  /\ Occurrences(trace', ended) = 1
                  /\ Position(trace', "llm_call") < Position(trace', "log_row")
                  /\ Position(trace', "log_row") < Position(trace', ended)
                  /\ result'.raised <=> Occurrences(trace', "llm_raised") = 1]_vars

(* a failed LLM call that left its row and then raised *)
C6_Witness ==
    /\ result.op = "answer_question"
    /\ result.raised
    /\ result.error = "llm"
    /\ llm_request_logs # <<>>
    /\ ~ llm_request_logs[Len(llm_request_logs)].success

----------------------------------------------------------------------------
(* Claims about the chunker *)

(* C7: for chunk size S and overlap O with 0 <= O < S, chunk_text on a     *)
(* text whose cleaned length is greater than 0 and less than S returns     *)
(* exactly one chunk, whose text equals the whole cleaned text.            *)
C7_ShortTextOneChunk ==
    (result.op = "chunk_text"
     /\ Len(result.cleaned) > 0
     /\ Len(result.cleaned) < pdf_processor.chunk_size)
    => /\ Len(result.chunks) = 1
       /\ result.chunks[1].text = result.cleaned

(* the chunk texts joined in order, each later one without the characters  *)
(* its window shares with the window before it                             *)
RECURSIVE RemoveOverlaps(_, _)
RemoveOverlaps(chunks, n) ==
    IF n = 0 THEN <<>>
    ELSE IF n = 1 THEN chunks[1].text
    ELSE LET shared == Max(0, Min(chunks[n - 1].end_char - chunks[n].start_char,
                                  Len(chunks[n].text)))
         IN RemoveOverlaps(chunks, n - 1)
            \o SubSeq(chunks[n].text, shared + 1, Len(chunks[n].text))

(* C8 as stated: concatenating the chunks returned by chunk_text in order, *)
(* after removing from each later chunk its overlap with its predecessor,  *)
(* reconstructs clean_text(T) exactly.                                     *)
C8_ReconstructsExactly ==
    result.op = "chunk_text"
    => RemoveOverlaps(result.chunks, Len(result.chunks)) = result.cleaned

(* C8 as amended: the chunks cover clean_text(T) up to whitespace: every   *)
(* non-whitespace character of the cleaned text lies in the window         *)
(* [start_char, end_char) of some returned chunk, the windows are in       *)
(* increasing order, and each chunk's text is exactly its window of the    *)
(* cleaned text with leading and trailing whitespace trimmed off (so       *)
(* whitespace at window edges is lost and the concatenation need not       *)
(* equal the cleaned text).                                                *)
C8_ChunksCoverUpToWhitespace ==
    result.op = "chunk_text"
    => LET cleaned == result.cleaned
           chunks == result.chunks
       IN /\ cleaned = CleanText(result.text)
          /\ \A i \in 1..Len(chunks) :
                 /\ chunks[i].text # <<>>
                 /\ chunks[i].text
                        = Strip(Slice(cleaned, chunks[i].start_char, chunks[i].end_char))
                 /\ i > 1 => chunks[i - 1].start_char < chunks[i].start_char
          /\ \A p \in 1..Len(cleaned) :
                 cleaned[p] \notin Whitespace
                     => \E i \in 1..Len(chunks) :
                            /\ chunks[i].start_char < p
                            /\ p <= chunks[i].end_char

(* several chunks whose concatenation has lost whitespace of the cleaned text *)
C8_Witness ==
    /\ result.op = "chunk_text"
    /\ Len(result.chunks) >= 2
    /\ RemoveOverlaps(result.chunks, Len(result.chunks)) # result.cleaned
    /\ \E p \in 1..Len(result.cleaned) : result.cleaned[p] \in Whitespace

----------------------------------------------------------------------------
(* Claims about the document filter and the version numbers *)

IdsOf(document_ids) == {document_ids[k] : k \in 1..Len(document_ids)}

(* C11: whenever a document_ids list is supplied to answer_question (of    *)
(* any length, including one element or none), every returned chunk and   *)
(* source has a document_id that is a member of that list.                 *)
C11_ResultsWithinSuppliedIds ==
    (result.op = "answer_question" /\ result.request.document_ids # NoneList)
    => /\ \A i \in 1..Len(result.relevant_chunks) :
              result.relevant_chunks[i].metadata.document_id
                  \in IdsOf(result.request.document_ids)
       /\ \A i \in 1..Len(result.sources) :
              result.sources[i].document_id \in IdsOf(result.request.document_ids)

(* the version numbers of a key's rows, in creation order *)
VersionsOf(templates, template_key) ==
    LET rows == SelectSeq(templates, LAMBDA r : r.template_key = template_key)
    IN [i \in 1..Len(rows) |-> rows[i].version]

(* C12: for every template key the version numbers of its rows are        *)
(* exactly 1..n in creation order, and create_prompt_version assigns the   *)
(* highest existing version of the key plus one, or 1 for a key without    *)
(* rows.                                                                   *)
C12_VersionsAreConsecutive ==
    /\ [](\A k \in TemplateKeys :
              LET versions == VersionsOf(prompt_templates, k)
              IN \A i \in 1..Len(versions) : versions[i] = i)
    /\ [][\A k \in TemplateKeys :
             (result'.op = "create_prompt_version" /\ result'.template_key = k)
             => LET before == VersionsOf(prompt_templates, k)
                    after == VersionsOf(prompt_templates', k)
                IN /\ after = Append(before, Len(before) + 1)
                   /\ result'.row.version = Len(before) + 1
                   /\ \A v \in {before[i] : i \in 1..Len(before)} :
                          v < result'.row.version]_vars

(* two keys with two versions each, their rows interleaved *)
C12_Witness ==
    /\ result.op = "create_prompt_version"
    /\ result.template_key = "k"
    /\ Len(VersionsOf(prompt_templates, "k")) = 2
    /\ Len(VersionsOf(prompt_templates, RAG_PROMPT_TEMPLATE_KEY)) = 2
    /\ prompt_templates[1].template_key # prompt_templates[2].template_key

----------------------------------------------------------------------------
(* Claims about the metrics summary *)

(* the rows of the log created at or after now minus the window *)
RowsInWindow(logs, window_hours, now) ==
    {i \in 1..Len(logs) : logs[i].created_at >= now - window_hours}

RECURSIVE TokensOf(_, _)
TokensOf(logs, rows) ==
    IF rows = {} THEN 0
    ELSE LET i == CHOOSE j \in rows : TRUE
         IN logs[i].prompt_tokens + logs[i].completion_tokens
            + TokensOf(logs, rows \ {i})

(* C13: get_metrics_summary(window_hours) aggregates exactly the log rows  *)
(* whose timestamp is at or after now minus the window: total_queries is   *)
(* their number, success_count + failure_count = total_queries, and        *)
(* total_tokens is the sum of prompt_tokens + completion_tokens over those *)
(* rows, failed calls contributing zero tokens.                            *)
C13_SummaryCountsWindowRows ==
    result.op = "get_metrics_summary"
    => LET rows == RowsInWindow(llm_request_logs, result.window_hours, result.now)
           ok == {i \in rows : llm_request_logs[i].success}
           summary == result.summary
       IN /\ summary.total_queries = Cardinality(rows)
          /\ summary.success_count = Cardinality(ok)
          /\ summary.failure_count = Cardinality(rows \ ok)
          /\ summary.success_count + summary.failure_count = summary.total_queries
          /\ summary.total_tokens = TokensOf(llm_request_logs, rows)
          /\ summary.total_tokens = TokensOf(llm_request_logs, ok)

(* a summary over a window that leaves out an older row and holds a        *)
(* failed call and a successful one                                        *)
C13_Witness ==
    /\ result.op = "get_metrics_summary"
    /\ result.summary.total_queries = 2
    /\ Len(llm_request_logs) = 3
    /\ result.summary.failure_count = 1
    /\ result.summary.total_tokens > 0
    /\ \E i \in 1..Len(llm_request_logs) :
           llm_request_logs[i].created_at = result.now - result.window_hours

----------------------------------------------------------------------------
(* Claims about the cleaner *)

InLongNewlineRun(text, i) ==
    \E a \in 1..Len(text) :
        /\ a <= i /\ i <= a + 2 /\ a + 2 <= Len(text)
        /\ \A j \in a..(a + 2) : text[j] = "\n"

C15_ChunkingOfRecleanedText ==
    result.op = "chunk_cleaned" => result.chunks_once = result.chunks_twice

(* a text that a second clean_text still changes, cut into several chunks *)
C15_Witness ==
    /\ result.op = "chunk_cleaned"
    /\ result.once # result.twice
    /\ Len(result.chunks_once) >= 2
    /\ result.chunks_once = result.chunks_twice

(* C16: for every input text, the result of clean_text contains no run of  *)
(* two or more spaces, no run of three or more newlines, no NUL character, *)
(* and no leading or trailing whitespace.                                  *)
C16_CleanedIsNormalised ==
    result.op = "clean_text"
    => LET cleaned == result.cleaned
           n == Len(cleaned)
       IN /\ \A i \in 1..(n - 1) : ~ (cleaned[i] = " " /\ cleaned[i + 1] = " ")
          /\ \A i \in 1..(n - 2) :
                 ~ (cleaned[i] = "\n" /\ cleaned[i + 1] = "\n" /\ cleaned[i + 2] = "\n")
          /\ \A i \in 1..n : cleaned[i] # "NUL"
          /\ n > 0 => (cleaned[1] \notin Whitespace /\ cleaned[n] \notin Whitespace)

----------------------------------------------------------------------------
(* Claims about the loop of chunk_text *)

(* C17: for every text and every chunk parameters with 0 <= O < S,         *)
(* chunk_text terminates: the window start offset strictly increases on    *)
(* every loop iteration until it reaches the text length; an empty text    *)
(* yields an empty chunk list, and no returned chunk is empty after        *)
(* trimming.                                                               *)
C17_ChunkTextTerminates ==
    /\ <>(result.pc = "done")
    /\ [][result'.iterations # result.iterations
             => result'.start > result.start]_vars
    /\ [](result.pc = "done"
          => /\ result.start >= Len(result.text)
             /\ result.text = <<>> => result.chunks = <<>>
             /\ \A i \in 1..Len(result.chunks) :
                    /\ result.chunks[i].text # <<>>
                    /\ result.chunks[i].text = Strip(result.chunks[i].text))

(* a call that returned several chunks after more iterations than chunks *)
C17_Witness ==
    /\ result.op = "chunk_loop"
    /\ result.pc = "done"
    /\ Len(result.chunks) >= 2
    /\ result.iterations > Len(result.chunks)

(* C18: chunk_text stops as soon as a window has reached the end of the    *)
(* text: no chunk is emitted after a chunk whose window end is at or       *)
(* beyond the text length, so the last chunk is the only one that reaches  *)
(* the text end and no chunk is wholly contained in its predecessor.       *)
C18_StopsAtTextEnd ==
    result.op = "chunk_text"
    => \A i \in 1..Len(result.chunks) :
           /\ result.chunks[i].end_char >= Len(result.cleaned)
                  => i = Len(result.chunks)
           /\ i > 1 => ~ (/\ result.chunks[i - 1].start_char
                                  <= result.chunks[i].start_char
                          /\ Min(result.chunks[i].end_char, Len(result.cleaned))
                                  <= Min(result.chunks[i - 1].end_char,
                                         Len(result.cleaned)))

(* C19 as stated: for every pair of consecutive chunks returned by         *)
(* chunk_text, the later chunk's start_char equals the earlier chunk's     *)
(* end_char minus the configured overlap O.                                *)
C19_ConsecutiveChunksOverlapByO ==
    result.op = "chunk_text"
    => \A i \in 2..Len(result.chunks) :
           result.chunks[i].start_char
               = result.chunks[i - 1].end_char - pdf_processor.chunk_overlap

(* C19 as amended: the later of two consecutive returned chunks starts at  *)
(* the earlier one's end_char minus O, or later than that when windows     *)
(* holding only whitespace were cut in between and skipped; then every     *)
(* character from that offset up to O characters past the later chunk's    *)
(* start is whitespace.                                                    *)
C19_OverlapByOUnlessWindowsSkipped ==
    result.op = "chunk_text"
    => \A i \in 2..Len(result.chunks) :
           LET expected == result.chunks[i - 1].end_char - pdf_processor.chunk_overlap
               actual == result.chunks[i].start_char
           IN \/ actual = expected
              \/ /\ actual > expected
                 /\ \A p \in (expected + 1)..Min(actual + pdf_processor.chunk_overlap,
                                                 Len(result.cleaned)) :
                        result.cleaned[p] \in Whitespace

(* three chunks with a skipped window between two of them and none between *)
(* the other two, the overlap being positive                               *)
C19_Witness ==
    /\ result.op = "chunk_text"
    /\ pdf_processor.chunk_overlap > 0
    /\ Len(result.chunks) >= 3
    /\ \E i \in 2..Len(result.chunks) :
           result.chunks[i].start_char
               > result.chunks[i - 1].end_char - pdf_processor.chunk_overlap
    /\ \E i \in 2..Len(result.chunks) :
           result.chunks[i].start_char
               = result.chunks[i - 1].end_char - pdf_processor.chunk_overlap

(* offset p of the text lies strictly inside a word *)
InsideWord(text, p) ==
    /\ 0 < p /\ p < Len(text)
    /\ text[p] \notin Boundaries
    /\ text[p + 1] \notin Boundaries

(* C20: no chunk boundary produced by chunk_text splits a word: for every  *)
(* chunk, neither its start offset nor its end offset lies strictly inside *)
(* a word, i.e. between two adjacent characters that are both different    *)
(* from space, newline, '.', '!' and '?'.                                  *)
C20_BoundariesSplitNoWord ==
    result.op = "chunk_text"
    => \A i \in 1..Len(result.chunks) :
           /\ ~ InsideWord(result.cleaned, result.chunks[i].start_char)
           /\ ~ InsideWord(result.cleaned, result.chunks[i].end_char)

----------------------------------------------------------------------------
(* Claims about failures in the answer pipeline *)

(* C21: if the LLM call fails during answer_question, the call raises to   *)
(* its caller and appends nothing to any conversation's history: every     *)
(* history is the same after the failed call as before it.                 *)
C21_LLMFailureLeavesHistories ==
    [][(result'.op = "answer_question" /\ Occurrences(trace', "llm_raised") > 0)
       => /\ result'.raised
          /\ trace'[Len(trace')] = "raise"
          /\ conversations' = conversations]_vars

(* a failed LLM call on a conversation that already has a history *)
C21_Witness ==
    /\ result.op = "answer_question"
    /\ Occurrences(trace, "llm_raised") > 0
    /\ result.raised
    /\ result.conversation_id \in DOMAIN conversations
    /\ Len(conversations[result.conversation_id]) = 2

(* C22: if the vector store query fails inside search_similar_chunks, the  *)
(* error is not propagated: the search gives an empty list and             *)
(* answer_question returns the fixed cannot-find-information answer of a   *)
(* search without matches, without raising and without an LLM call.        *)
C22_QueryFailureGivesNoInformationAnswer ==
    [][(result'.op = "answer_question" /\ Occurrences(trace', "search_error") > 0)
       => /\ ~ result'.raised
          /\ result'.relevant_chunks = <<>>
          /\ result'.answer = NoInformationAnswer
          /\ result'.sources = <<>>
          /\ Occurrences(trace', "llm_call") = 0
          /\ llm_request_logs' = llm_request_logs
          /\ conversations' = conversations]_vars

(* a failed query on a store that holds chunks the request would match *)
C22_Witness ==
    /\ result.op = "answer_question"
    /\ Occurrences(trace, "search_error") > 0
    /\ collection # <<>>
    /\ result.request.document_ids = NoneList
    /\ result.answer = NoInformationAnswer

(* C23: each step of the ingest pipeline short-circuits on failure: if the *)
(* duplicate-check scan of existing documents fails (the vector store      *)
(* raises while listing documents or reading their chunks),                *)
(* process_document does not go on to extract, embed or persist chunks     *)
(* for that upload.                                                        *)
C23_ScanFailureStopsIngest ==
    [][(result'.op = "process_document" /\ ScanFailed(trace'))
       => /\ \A i \in 1..Len(trace') :
                 trace'[i] \notin {"extract", "extract_error", "embed",
                                   "embed_error", "add", "add_error"}
          /\ collection' = collection
          /\ result'.status # "completed"]_vars

----------------------------------------------------------------------------
(* Claims about the prompt template in use *)

(* C24: the prompt template that generate_answer renders and records in    *)
(* the log is always the highest-versioned active row of the well-known    *)
(* key; only when the key has no rows at all is the default template       *)
(* created as version 1 (active) and used.  An inactive row is never used. *)
C24_ActiveTemplateIsUsed ==
    [][result'.op = "generate_answer"
       => LET active == GetActivePromptTemplate(prompt_templates,
                                                RAG_PROMPT_TEMPLATE_KEY)
              logged == llm_request_logs'[Len(llm_request_logs')]
              used == {i \in RowsOfKey(prompt_templates', RAG_PROMPT_TEMPLATE_KEY) :
                          prompt_templates'[i].version
                              = logged.prompt_template_version}
          IN /\ logged.prompt_template_key = RAG_PROMPT_TEMPLATE_KEY
             /\ logged.prompt_template_version = result'.prompt_template_version
             /\ \A i \in used : prompt_templates'[i].is_active
             /\ IF active # NoTemplate
                THEN /\ logged.prompt_template_version = active.version
                     /\ prompt_templates' = prompt_templates
                ELSE /\ RowsOfKey(prompt_templates, RAG_PROMPT_TEMPLATE_KEY) = {}
                     /\ logged.prompt_template_version = 1
                     /\ Len(prompt_templates') = Len(prompt_templates) + 1]_vars

----------------------------------------------------------------------------
(* Claims about concurrent calls *)

(* some key has more than one active row, or two rows with the same version *)
VersionAnomaly(templates) ==
    \E i, j \in 1..Len(templates) :
        /\ i # j
        /\ templates[i].template_key = templates[j].template_key
        /\ \/ templates[i].is_active /\ templates[j].is_active
           \/ templates[i].version = templates[j].version

(* C25: the deactivate-then-insert step of create_prompt_version is not    *)
(* atomic against a concurrent create_prompt_version call on the same key: *)
(* a call that no other call's commit fell into leaves every key with at   *)
(* most one active row and pairwise different versions, and only a call    *)
(* overlapped by another one's commit can leave more than one active row   *)
(* or two rows with the same version number (the witness's state).         *)
C25_AnomalyOnlyFromOverlap ==
    [][(result'.op = "create_prompt_version" /\ prompt_templates' # prompt_templates
        /\ ~ VersionAnomaly(prompt_templates) /\ VersionAnomaly(prompt_templates'))
       => result'.overlapped]_vars

(* two calls with activate = true have both committed and the key has two  *)
(* rows with the same version number                                       *)
C25_Witness ==
    /\ calls = NoCalls
    /\ Len(prompt_templates) = 3
    /\ prompt_templates[2].version = prompt_templates[3].version
    /\ result.op = "create_prompt_version"
    /\ result.activate
    /\ result.overlapped
    /\ \E i \in 1..Len(prompt_templates) : prompt_templates[i].is_active
    /\ \A i \in 1..Len(prompt_templates) :
           prompt_templates[i].template_key = RAG_PROMPT_TEMPLATE_KEY

(* C26: concurrent answer_question calls on the same conversation id can   *)
(* interleave their read-modify-append of that conversation's message list *)
(* so that an update is lost.  A call that no other call on its            *)
(* conversation id overlapped leaves the history the sequential            *)
(* _update_conversation gives; the witness's state, in which the history   *)
(* lacks the question of a call that returned successfully while fewer     *)
(* than 10 exchanges are stored, arises from overlapping calls.            *)
C26_UpdateLostOnlyByOverlap ==
    [][(result'.op = "answer_question" /\ calls' # calls
        /\ Cardinality(DOMAIN calls') < Cardinality(DOMAIN calls)
        /\ ~ result'.overlapped)
       => conversations'[result'.conversation_id]
            = UpdateConversation(result'.before, result'.conversation_id,
                                 result'.question,
                                 result'.answer)[result'.conversation_id]]_vars

(* both calls on conversation 2 have returned, and its history holds one   *)
(* exchange and lacks the first call's question                            *)
C26_Witness ==
    /\ calls = NoCalls
    /\ Len(llm_request_logs) = PriorExchanges + 2
    /\ \A i \in PriorExchanges + 1 .. PriorExchanges + 2 :
           llm_request_logs[i].success /\ llm_request_logs[i].conversation_id = 2
    /\ llm_request_logs[PriorExchanges + 1].question = "q1"
    /\ llm_request_logs[PriorExchanges + 2].question = "q2"
    /\ 2 \in DOMAIN conversations
    /\ Len(conversations[2]) = 2
    /\ \A i \in 1..Len(conversations[2]) : conversations[2][i].content # "q1"
    /\ result.op = "answer_question"
    /\ result.overlapped

----------------------------------------------------------------------------
(* Claims about the sources of an answer *)

(* C27: the sources returned by answer_question correspond one-to-one to   *)
(* the chunks returned by the vector store, at most top_k of them, in the  *)
(* store's rank order with no re-ranking (nearest first), and the context  *)
(* entry labelled 'Source i' is built from the same chunk as the i-th      *)
(* source.                                                                 *)
C27_SourcesFollowStoreRanking ==
    (result.op = "answer_question" /\ ~ result.raised
        /\ result.relevant_chunks # <<>>)
    => /\ Len(result.sources) = Len(result.relevant_chunks)
       /\ Len(result.sources) <= TOP_K_RESULTS
       /\ Len(result.context) = Len(result.sources)
       /\ \A i \in 1..Len(result.sources) :
              /\ result.sources[i].chunk_id
                     = result.relevant_chunks[i].metadata.chunk_id
              /\ result.sources[i].document_id
                     = result.relevant_chunks[i].metadata.document_id
              /\ result.sources[i].distance = result.relevant_chunks[i].distance
              /\ result.context[i].source = i
              /\ result.context[i].chunk_id = result.sources[i].chunk_id
              /\ result.context[i].document_id = result.sources[i].document_id
              /\ result.context[i].filename = result.sources[i].document_name
              /\ \E k \in 1..Len(collection) :
                     /\ collection[k].chunk_id = result.sources[i].chunk_id
                     /\ collection[k].document_id = result.sources[i].document_id
                     /\ WhereMatches(result.request.document_ids, collection[k])
       /\ \A i, j \in 1..Len(result.sources) :
              i < j => /\ result.sources[i].distance < result.sources[j].distance
                       /\ <<result.sources[i].document_id,
                            result.sources[i].chunk_id>>
                              # <<result.sources[j].document_id,
                                  result.sources[j].chunk_id>>

(* three rows match, the store ranks the last inserted row nearest, and    *)
(* the answer names the two nearest in that order                          *)
C27_Witness ==
    /\ result.op = "answer_question"
    /\ ~ result.raised
    /\ Len(collection) = 3
    /\ result.request.document_ids = NoneList
    /\ Len(result.sources) = 2
    /\ result.sources[1].document_id = collection[3].document_id
    /\ result.sources[1].chunk_id = collection[3].chunk_id
    /\ result.sources[2].document_id = collection[2].document_id
    /\ result.sources[2].chunk_id = collection[2].chunk_id
    /\ collection[2].document_id # collection[3].document_id
    /\ result.context[1].document_id = collection[3].document_id

----------------------------------------------------------------------------
(* Claims about the histories of several conversations *)

(* the history alternates user and assistant messages, user first *)
Alternates(history) ==
    /\ Len(history) % 2 = 0
    /\ \A i \in 1..Len(history) :
           history[i].role = IF i % 2 = 1 THEN "user" ELSE "assistant"

(* C28: after any sequence of answer_question calls, every conversation's  *)
(* history has even length and alternates user and assistant messages      *)
(* starting with a user message, and consists of the question/answer pairs *)
(* of that conversation's most recent (at most 10) successfully            *)
(* LLM-answered calls in call order; calls that failed or found no chunks  *)
(* contribute nothing, and a call on one conversation id never changes     *)
(* another conversation's history.                                         *)
C28_HistoriesAreRecentAnsweredCalls ==
    /\ [](\A c \in {1, 2} :
             LET history == GetConversationHistory(conversations, c)
             IN /\ Alternates(history)
                /\ Len(history) <= 2 * 10
                /\ history = LastN(Transcript(llm_request_logs, c), 2 * 10)
                /\ c \in DOMAIN conversations
                       <=> Transcript(llm_request_logs, c) # <<>>)
    /\ [][result'.op = "answer_question"
          => /\ \A c \in DOMAIN conversations :
                    c # result'.conversation_id
                        => /\ c \in DOMAIN conversations'
                           /\ conversations'[c] = conversations[c]
             /\ DOMAIN conversations' \subseteq
                    DOMAIN conversations \cup {result'.conversation_id}
             /\ (result'.raised \/ result'.relevant_chunks = <<>>)
                    => conversations' = conversations
             /\ (~ result'.raised /\ result'.relevant_chunks # <<>>)
                    => conversations'[result'.conversation_id]
                         = LastN(GetConversationHistory(conversations,
                                     result'.conversation_id)
                                 \o <<[role |-> "user",
                                       content |-> result'.request.question],
                                      [role |-> "assistant",
                                       content |-> result'.answer]>>,
                                 2 * 10)]_vars

(* conversation 1 has had eleven answered calls and a failed one and holds *)
(* the last ten exchanges, conversation 2 has had one answered call, and   *)
(* the last call found no chunks                                           *)
C28_Witness ==
    /\ result.op = "answer_question"
    /\ ~ result.raised
    /\ result.relevant_chunks = <<>>
    /\ result.conversation_id = 1
    /\ 1 \in DOMAIN conversations
    /\ 2 \in DOMAIN conversations
    /\ Len(conversations[1]) = 20
    /\ Len(Transcript(llm_request_logs, 1)) = 22
    /\ Len(conversations[2]) = 2
    /\ \E i \in 1..Len(llm_request_logs) :
           /\ ~ llm_request_logs[i].success
           /\ llm_request_logs[i].conversation_id = 1
    /\ conversations[1][17].content = "q2"
    /\ conversations[1][19].content = "q1"

----------------------------------------------------------------------------
(* Claims about the health check *)

(* C29: health_check never raises, and it reports overall status 'healthy' *)
(* only when all three component probes (LLM API, vector store,            *)
(* embeddings) report healthy; if any component is reported 'unhealthy'    *)
(* the overall status is not 'healthy'.                                    *)
C29_HealthyOnlyWhenAllHealthy ==
    result.op = "health_check"
    => /\ ~ result.raised
       /\ result.status = "healthy"
              => /\ result.components.groq_api = "healthy"
                 /\ result.components.chromadb = "healthy"
                 /\ result.components.embeddings = "healthy"

----------------------------------------------------------------------------
(* Claims about the rate limiter *)

(* the admissions among the given times that fall in the 60 seconds up to now *)
Within(times, now) == {i \in 1..Len(times) : times[i] > now - 60 /\ times[i] <= now}

(* C30: for every client IP and every instant, RateLimiter.is_allowed has  *)
(* admitted at most requests_per_minute requests from that client within   *)
(* the preceding 60 seconds; rejected requests are not recorded and do not *)
(* delay later admission (a request is admitted exactly when fewer than    *)
(* requests_per_minute admitted requests of its client fall in the         *)
(* preceding 60 seconds, and the stored times are admitted ones), and one  *)
(* client's requests never affect whether another client's request is      *)
(* admitted (they leave its stored times alone).                           *)
C30_AtMostLimitPerMinute ==
    /\ [](\A client_ip \in ClientIps :
             /\ \A now \in 0..clock :
                    Cardinality(Within(AdmittedSoFar[client_ip], now))
                        <= rate_limiter.requests_per_minute
             /\ LET times == RequestsOf(rate_limiter, client_ip)
                    admitted == AdmittedSoFar[client_ip]
                IN /\ Len(times) <= Len(admitted)
                   /\ times = SubSeq(admitted, Len(admitted) - Len(times) + 1,
                                     Len(admitted))
                   /\ Cardinality(Within(admitted, clock)) <= Len(times))
    /\ [][(result'.op = "is_allowed" /\ clock' = clock)
          => /\ result'.allowed
                    <=> Cardinality(Within(AdmittedSoFar[result'.client_ip], clock))
                            < rate_limiter.requests_per_minute
             /\ \A other \in ClientIps \ {result'.client_ip} :
                    RequestsOf(rate_limiter', other)
                        = RequestsOf(rate_limiter, other)]_vars

(* a client admitted twice within a minute, the other client admitted     *)
(* twice as well, is admitted a third time exactly 60 seconds after its    *)
(* first admitted request, whose time has left the stored list             *)
C30_Witness ==
    /\ result.op = "is_allowed"
    /\ result.allowed
    /\ result.client_ip = "10.0.0.1"
    /\ result.now = 60
    /\ result.admitted["10.0.0.1"] = <<0, 20, 60>>
    /\ Len(result.admitted["unknown"]) = 2
    /\ RequestsOf(rate_limiter, "10.0.0.1") = <<20, 60>>

====
